---- MODULE Spec2Model ----
(***************************************************************************)
(* Collage maker: the action log, the derived sprite sequence, undo/redo,  *)
(* gestures, the paste buffer, image upload and sprites.json import.       *)
(*                                                                         *)
(* Numbers.  A JavaScript number is modelled as a record [n, d]: the       *)
(* rational n/d in lowest terms when d > 0, and Infinity (1/0), -Infinity  *)
(* (-1/0) and NaN (0/0) when d = 0.  +, -, * and / are exact on finite     *)
(* values and follow IEEE 754 on the three non-finite ones; Math.hypot is  *)
(* rounded down to the grid of the radicand's denominator.  Signed zero is *)
(* not modelled (0 stands for +0).                                         *)
(*                                                                         *)
(* Strings.  A string is a sequence of one-character strings, so that      *)
(* suffix matching, slicing, decimal formatting and parsing are computed.  *)
(***************************************************************************)
EXTENDS Integers, Sequences, FiniteSets, TLC

\* ------------------------------------------------------------------ bounds
\* longest action log, and longest log + redo stack, that the model explores
MaxLog == 2

\* largest image library that the model explores
MaxImages == 2

\* the model copies a width or height into the paste buffer only when it is a
\* whole number of pixels from 0 to MaxCopied
MaxCopied == 2

IsCopied(value) == value.d = 1 /\ value.n >= 0 /\ value.n <= MaxCopied

\* ------------------------------------------------------------- arithmetic
Abs(i) == IF i < 0 THEN -i ELSE i

Sgn(i) == IF i < 0 THEN -1 ELSE IF i > 0 THEN 1 ELSE 0

RECURSIVE GCD(_, _)
GCD(a, b) == IF b = 0 THEN a ELSE GCD(b, a % b)

RECURSIVE ISqrtFrom(_, _)
ISqrtFrom(r, k) == IF (r + 1) * (r + 1) > k THEN r ELSE ISqrtFrom(r + 1, k)

ISqrt(k) == ISqrtFrom(0, k)

Rat(n, d) ==
  IF d = 0 THEN [n |-> Sgn(n), d |-> 0]
  ELSE LET s == Sgn(d)
           g == GCD(Abs(n), Abs(d))
       IN  [n |-> (s * n) \div g, d |-> Abs(d) \div g]

Num(i) == [n |-> i, d |-> 1]

NaN == [n |-> 0, d |-> 0]

PosInf == [n |-> 1, d |-> 0]

NegInf == [n |-> -1, d |-> 0]

IsFinite(a) == a.d # 0

IsNaN(a) == a.d = 0 /\ a.n = 0

Add(a, b) ==
  IF IsNaN(a) \/ IsNaN(b) THEN NaN
  ELSE IF a.d = 0 /\ b.d = 0 THEN (IF a.n = b.n THEN a ELSE NaN)
  ELSE IF a.d = 0 THEN a
  ELSE IF b.d = 0 THEN b
  ELSE Rat(a.n * b.d + b.n * a.d, a.d * b.d)

Neg(a) == [n |-> -a.n, d |-> a.d]

Sub(a, b) == Add(a, Neg(b))

Mul(a, b) == Rat(a.n * b.n, a.d * b.d)

Div(a, b) ==
  IF IsNaN(a) \/ IsNaN(b) THEN NaN
  ELSE IF b.d = 0 THEN (IF a.d = 0 THEN NaN ELSE Num(0))
  ELSE IF b.n = 0 THEN (IF a.n = 0 THEN NaN ELSE [n |-> Sgn(a.n), d |-> 0])
  ELSE IF a.d = 0 THEN [n |-> a.n * Sgn(b.n), d |-> 0]
  ELSE Rat(a.n * b.d, a.d * b.n)

Hypot(a, b) ==
  IF (a.d = 0 /\ a.n # 0) \/ (b.d = 0 /\ b.n # 0) THEN PosInf
  ELSE IF IsNaN(a) \/ IsNaN(b) THEN NaN
  ELSE LET q == Add(Mul(a, a), Mul(b, b))
       IN  Rat(ISqrt(q.n * q.d), q.d)

\* a === b on numbers: NaN equals nothing, itself included
NumEq(a, b) == ~IsNaN(a) /\ ~IsNaN(b) /\ a = b

Lt(a, b) ==
  IF IsNaN(a) \/ IsNaN(b) THEN FALSE
  ELSE IF a.d = 0 /\ b.d = 0 THEN a.n < b.n
  ELSE IF a.d = 0 THEN a.n < 0
  ELSE IF b.d = 0 THEN b.n > 0
  ELSE a.n * b.d < b.n * a.d

Leq(a, b) == Lt(a, b) \/ NumEq(a, b)

\* ---------------------------------------------------------------- strings
DIGITS == <<"0", "1", "2", "3", "4", "5", "6", "7", "8", "9">>

IsDigit(c) == \E i \in 1..10 : DIGITS[i] = c

DigitValue(c) == (CHOOSE i \in 1..10 : DIGITS[i] = c) - 1

\* String(counter) for a non-negative integer
RECURSIVE NumberToString(_)
NumberToString(k) ==
  IF k < 10 THEN <<DIGITS[k + 1]>>
  ELSE NumberToString(k \div 10) \o <<DIGITS[(k % 10) + 1]>>

\* Number.parseInt(digits, 10) on a non-empty run of decimal digits
RECURSIVE ParseInt(_)
ParseInt(ds) ==
  IF Len(ds) = 0 THEN 0
  ELSE 10 * ParseInt(SubSeq(ds, 1, Len(ds) - 1)) + DigitValue(ds[Len(ds)])

EndsWith(s, t) ==
  Len(t) <= Len(s) /\ SubSeq(s, Len(s) - Len(t) + 1, Len(s)) = t

\* number of decimal digits that end at position i of s
RECURSIVE DigitRun(_, _)
DigitRun(s, i) ==
  IF i >= 1 /\ IsDigit(s[i]) THEN 1 + DigitRun(s, i - 1) ELSE 0

\* / \((\d+)\)$/.exec(name): the length of match[0], or 0 when there is no match
CounterSuffixLength(name) ==
  LET L == Len(name)
  IN  IF L < 4 \/ name[L] # ")" THEN 0
      ELSE LET k == DigitRun(name, L - 1)
           IN  IF k >= 1 /\ L - 2 - k >= 1
                  /\ name[L - 1 - k] = "(" /\ name[L - 2 - k] = " "
               THEN k + 3 ELSE 0

\* match[1] of the same regular expression
CounterSuffixDigits(name) ==
  LET m == CounterSuffixLength(name)
  IN  SubSeq(name, Len(name) - m + 3, Len(name) - 1)

\* position of the last "." of s, or 0
RECURSIVE LastDot(_, _)
LastDot(s, i) ==
  IF i = 0 THEN 0 ELSE IF s[i] = "." THEN i ELSE LastDot(s, i - 1)

\* position of the last "/" or "\" of s, or 0
RECURSIVE LastSlash(_, _)
LastSlash(s, i) ==
  IF i = 0 THEN 0
  ELSE IF s[i] = "/" \/ s[i] = "\\" THEN i ELSE LastSlash(s, i - 1)

IMAGE_EXTENSIONS ==
  { <<".", "p", "n", "g">>, <<".", "j", "p", "g">>,
    <<".", "j", "p", "e", "g">>, <<".", "s", "v", "g">> }

\* the model's strings are lower case, so toLowerCase is the identity on them
isImageFileName(name) ==
  LET b == LastSlash(name, Len(name))
  IN  IF Len(name) = 0 \/ (b < Len(name) /\ name[b + 1] = ".") THEN FALSE
      ELSE \E e \in IMAGE_EXTENSIONS : EndsWith(name, e)

\* name.replace(/\.[^.]*$/, "")
StripExtension(name) ==
  LET p == LastDot(name, Len(name))
  IN  IF p = 0 THEN name ELSE SubSeq(name, 1, p - 1)

\* ------------------------------------------------------ ids and names
RECURSIVE MaxOf(_)
MaxOf(S) ==
  LET x == CHOOSE y \in S : TRUE
  IN  IF S = {x} THEN x
      ELSE LET m == MaxOf(S \ {x}) IN IF x > m THEN x ELSE m

SpriteIds(sprites) == { sprites[i].id : i \in 1..Len(sprites) }

\* faulty variant: the name of the last sprite is left out
SpriteNamesButLast(sprites) == { sprites[i].name : i \in 1..(Len(sprites) - 1) }

SpriteNames(sprites) == { sprites[i].name : i \in 1..Len(sprites) }

\* faulty variant: the largest id in use, not one more
getUnusedIdNoIncrement(sprites) ==
  IF Len(sprites) = 0 THEN 0 ELSE MaxOf(SpriteIds(sprites))

getUnusedId(sprites) ==
  IF Len(sprites) = 0 THEN 0 ELSE 1 + MaxOf(SpriteIds(sprites))

\* the while (true) loop: the first counter from c on whose candidate is unused
RECURSIVE FirstUnusedCandidate(_, _, _)
FirstUnusedCandidate(idealName, existingNames, counter) ==
  LET candidate == idealName \o <<" ", "(">> \o NumberToString(counter) \o <<")">>
  IN  IF candidate \notin existingNames THEN candidate
      ELSE FirstUnusedCandidate(idealName, existingNames, counter + 1)

RECURSIVE getUnusedSpriteNameWithMinimumCounter(_, _, _)
getUnusedSpriteNameWithMinimumCounter(idealName, sprites, minimumCounter) ==
  LET existingNames == SpriteNames(sprites)
      m == CounterSuffixLength(idealName)
  IN  IF idealName \notin existingNames THEN idealName
      ELSE IF m # 0
      THEN getUnusedSpriteNameWithMinimumCounter(
             SubSeq(idealName, 1, Len(idealName) - m), sprites,
             1 + ParseInt(CounterSuffixDigits(idealName)))
      ELSE FirstUnusedCandidate(idealName, existingNames, minimumCounter)

\* faulty variant: the ideal name, taken or not
getUnusedSpriteNameUnchecked(idealName, sprites) == idealName

getUnusedSpriteName(idealName, sprites) ==
  getUnusedSpriteNameWithMinimumCounter(idealName, sprites, 1)

\* ------------------------------------------------- per-action transitions
IndexOfId(sprites, id) ==
  IF \E i \in 1..Len(sprites) : sprites[i].id = id
  THEN CHOOSE i \in 1..Len(sprites) :
         sprites[i].id = id /\ \A j \in 1..(i - 1) : sprites[j].id # id
  ELSE 0

\* faulty variant: the height is the width, whatever the image
HeightOfSquare(width, image) == width

\* sprite.width * sprite.image.height / sprite.image.width
HeightOf(width, image) == Div(Mul(width, Num(image.height)), Num(image.width))

\* faulty variant: the new sprite goes below the others
applySpriteCreationAtBottom(action, sprites) ==
  LET idealName == IF isImageFileName(action.image.name)
                   THEN StripExtension(action.image.name)
                   ELSE action.image.name
  IN  <<[name |-> getUnusedSpriteName(idealName, sprites),
         id |-> getUnusedId(sprites),
         image |-> action.image,
         x |-> Num(0), y |-> Num(0),
         width |-> Num(action.image.width)]>> \o sprites

applySpriteCreation(action, sprites) ==
  LET idealName == IF isImageFileName(action.image.name)
                   THEN StripExtension(action.image.name)
                   ELSE action.image.name
  IN  Append(sprites,
             [name |-> getUnusedSpriteName(idealName, sprites),
              id |-> getUnusedId(sprites),
              image |-> action.image,
              x |-> Num(0), y |-> Num(0),
              width |-> Num(action.image.width)])

\* faulty variant: splice at indexOf, which removes the last sprite when the id
\* is not found
applySpriteDeletionSplice(action, sprites) ==
  LET i == IF \E k \in 1..Len(sprites) : sprites[k].id = action.spriteId
           THEN CHOOSE k \in 1..Len(sprites) : sprites[k].id = action.spriteId
           ELSE Len(sprites)
  IN  [k \in 1..(Len(sprites) - (IF i = 0 THEN 0 ELSE 1)) |->
         IF k < i THEN sprites[k] ELSE sprites[k + 1]]

applySpriteDeletion(action, sprites) ==
  SelectSeq(sprites, LAMBDA sprite : sprite.id # action.spriteId)

applySpriteDuplication(action, sprites) ==
  LET i == IndexOfId(sprites, action.spriteId)
  IN  IF i = 0 THEN sprites
      ELSE Append(sprites,
                  [name |-> getUnusedSpriteName(sprites[i].name, sprites),
                   id |-> getUnusedId(sprites),
                   image |-> sprites[i].image,
                   x |-> sprites[i].x, y |-> sprites[i].y,
                   width |-> sprites[i].width])

\* faulty variant: the coordinates are an offset from where the sprite is
applySpriteTranslationRelative(action, sprites) ==
  [i \in 1..Len(sprites) |->
     IF sprites[i].id = action.spriteId
     THEN [sprites[i] EXCEPT !.x = Add(sprites[i].x, action.newX),
                             !.y = Add(sprites[i].y, action.newY)]
     ELSE sprites[i]]

applySpriteTranslation(action, sprites) ==
  [i \in 1..Len(sprites) |->
     IF sprites[i].id = action.spriteId
     THEN [sprites[i] EXCEPT !.x = action.newX, !.y = action.newY]
     ELSE sprites[i]]

\* faulty variant: the sprite is re-centred but keeps its width
applySpriteScalingKeepsWidth(action, sprites) ==
  [i \in 1..Len(sprites) |->
     IF sprites[i].id # action.spriteId THEN sprites[i]
     ELSE LET sprite == sprites[i]
              newWidth == action.newWidth
              oldWidth == sprite.width
              newHeight == HeightOf(action.newWidth, sprite.image)
              oldHeight == HeightOf(sprite.width, sprite.image)
          IN  [sprite EXCEPT
                 !.x = Sub(sprite.x, Div(Sub(newWidth, oldWidth), Num(2))),
                 !.y = Sub(sprite.y, Div(Sub(newHeight, oldHeight), Num(2)))]]

applySpriteScaling(action, sprites) ==
  [i \in 1..Len(sprites) |->
     IF sprites[i].id # action.spriteId THEN sprites[i]
     ELSE LET sprite == sprites[i]
              newWidth == action.newWidth
              oldWidth == sprite.width
              newHeight == HeightOf(action.newWidth, sprite.image)
              oldHeight == HeightOf(sprite.width, sprite.image)
          IN  [sprite EXCEPT
                 !.x = Sub(sprite.x, Div(Sub(newWidth, oldWidth), Num(2))),
                 !.y = Sub(sprite.y, Div(Sub(newHeight, oldHeight), Num(2))),
                 !.width = action.newWidth]]

\* faulty variant: MoveToBottom exchanges the sprite with the bottom one
applySpriteLayerReorderingSwap(action, sprites) ==
  LET spriteIndex == IndexOfId(sprites, action.spriteId)
      n == Len(sprites)
      sprite == sprites[spriteIndex]
  IN  IF spriteIndex = 0 THEN sprites
      ELSE CASE action.layerChangeKind = "MoveUp" ->
                  IF spriteIndex = n THEN sprites
                  ELSE SubSeq(sprites, 1, spriteIndex - 1)
                       \o <<sprites[spriteIndex + 1], sprite>>
                       \o SubSeq(sprites, spriteIndex + 2, n)
             [] action.layerChangeKind = "MoveDown" ->
                  IF spriteIndex = 1 THEN sprites
                  ELSE SubSeq(sprites, 1, spriteIndex - 2)
                       \o <<sprite, sprites[spriteIndex - 1]>>
                       \o SubSeq(sprites, spriteIndex + 1, n)
             [] action.layerChangeKind = "MoveToTop" ->
                  SubSeq(sprites, 1, spriteIndex - 1)
                  \o SubSeq(sprites, spriteIndex + 1, n)
                  \o <<sprite>>
             [] action.layerChangeKind = "MoveToBottom" ->
                  [k \in 1..n |->
                     IF k = 1 THEN sprite
                     ELSE IF k = spriteIndex THEN sprites[1]
                     ELSE sprites[k]]

applySpriteLayerReordering(action, sprites) ==
  LET spriteIndex == IndexOfId(sprites, action.spriteId)
      n == Len(sprites)
      sprite == sprites[spriteIndex]
  IN  IF spriteIndex = 0 THEN sprites
      ELSE CASE action.layerChangeKind = "MoveUp" ->
                  IF spriteIndex = n THEN sprites
                  ELSE SubSeq(sprites, 1, spriteIndex - 1)
                       \o <<sprites[spriteIndex + 1], sprite>>
                       \o SubSeq(sprites, spriteIndex + 2, n)
             [] action.layerChangeKind = "MoveDown" ->
                  IF spriteIndex = 1 THEN sprites
                  ELSE SubSeq(sprites, 1, spriteIndex - 2)
                       \o <<sprite, sprites[spriteIndex - 1]>>
                       \o SubSeq(sprites, spriteIndex + 1, n)
             [] action.layerChangeKind = "MoveToTop" ->
                  SubSeq(sprites, 1, spriteIndex - 1)
                  \o SubSeq(sprites, spriteIndex + 1, n)
                  \o <<sprite>>
             [] action.layerChangeKind = "MoveToBottom" ->
                  <<sprite>>
                  \o SubSeq(sprites, 1, spriteIndex - 1)
                  \o SubSeq(sprites, spriteIndex + 1, n)

applySpriteRenaming(action, sprites) ==
  LET newName == getUnusedSpriteName(action.idealNewName, sprites)
  IN  [i \in 1..Len(sprites) |->
         IF sprites[i].id = action.spriteId
         THEN [sprites[i] EXCEPT !.name = newName]
         ELSE sprites[i]]

RECURSIVE BulkImportFrom(_, _, _)
BulkImportFrom(idealSprites, k, out) ==
  IF k > Len(idealSprites) THEN out
  ELSE BulkImportFrom(idealSprites, k + 1,
         Append(out,
                [name |-> getUnusedSpriteName(idealSprites[k].spriteName, out),
                 id |-> getUnusedId(out),
                 image |-> idealSprites[k].image,
                 x |-> idealSprites[k].x, y |-> idealSprites[k].y,
                 width |-> idealSprites[k].width]))

\* faulty variant: the loop starts at the second entry
applyBulkImportFromSecond(action, sprites) ==
  BulkImportFrom(action.idealSprites, 2, sprites)

applyBulkImport(action, sprites) == BulkImportFrom(action.idealSprites, 1, sprites)

applyAction(action, sprites) ==
  CASE action.kind = "Create" -> applySpriteCreation(action, sprites)
    [] action.kind = "Delete" -> applySpriteDeletion(action, sprites)
    [] action.kind = "Duplicate" -> applySpriteDuplication(action, sprites)
    [] action.kind = "Translate" -> applySpriteTranslation(action, sprites)
    [] action.kind = "Scale" -> applySpriteScaling(action, sprites)
    [] action.kind = "ReorderLayers" -> applySpriteLayerReordering(action, sprites)
    [] action.kind = "Rename" -> applySpriteRenaming(action, sprites)
    [] action.kind = "BulkImport" -> applyBulkImport(action, sprites)

\* ------------------------------------------------- pending transformation
NoPending == [kind |-> "null"]

\* faulty variant: the sprite goes to where the pointer is
finalizePendingSpriteTranslationToPointer(transformation, sprites) ==
  [kind |-> "Translate",
   spriteId |-> transformation.spriteId,
   newX |-> transformation.pointerCurrentX,
   newY |-> transformation.pointerCurrentY]

finalizePendingSpriteTranslation(transformation, sprites) ==
  LET i == IndexOfId(sprites, transformation.spriteId)
      oldX == IF i = 0 THEN Num(0) ELSE sprites[i].x
      oldY == IF i = 0 THEN Num(0) ELSE sprites[i].y
  IN  [kind |-> "Translate",
       spriteId |-> transformation.spriteId,
       newX |-> Add(oldX, Sub(transformation.pointerCurrentX,
                              transformation.pointerStartX)),
       newY |-> Add(oldY, Sub(transformation.pointerCurrentY,
                              transformation.pointerStartY))]

\* faulty variant: no special case for a pointer that has not moved
finalizePendingSpriteScalingByRatio(transformation, sprites) ==
  LET i == IndexOfId(sprites, transformation.spriteId)
      oldX == IF i = 0 THEN Num(0) ELSE sprites[i].x
      oldY == IF i = 0 THEN Num(0) ELSE sprites[i].y
      oldWidth == IF i = 0 THEN Num(0) ELSE sprites[i].width
      oldImageWidth == IF i = 0 THEN Num(0) ELSE Num(sprites[i].image.width)
      oldImageHeight == IF i = 0 THEN Num(0) ELSE Num(sprites[i].image.height)
      centerX == Add(oldX, Div(oldWidth, Num(2)))
      centerY == Add(oldY, Div(Div(Mul(oldWidth, oldImageHeight), oldImageWidth),
                               Num(2)))
      startPointerDistance ==
        Hypot(Sub(transformation.pointerStartX, centerX),
              Sub(transformation.pointerStartY, centerY))
      currentPointerDistance ==
        Hypot(Sub(transformation.pointerCurrentX, centerX),
              Sub(transformation.pointerCurrentY, centerY))
  IN  [kind |-> "Scale", spriteId |-> transformation.spriteId,
       newWidth |-> Div(Mul(oldWidth, currentPointerDistance),
                        startPointerDistance)]

finalizePendingSpriteScaling(transformation, sprites) ==
  LET i == IndexOfId(sprites, transformation.spriteId)
      oldX == IF i = 0 THEN Num(0) ELSE sprites[i].x
      oldY == IF i = 0 THEN Num(0) ELSE sprites[i].y
      oldWidth == IF i = 0 THEN Num(0) ELSE sprites[i].width
      oldImageWidth == IF i = 0 THEN Num(0) ELSE Num(sprites[i].image.width)
      oldImageHeight == IF i = 0 THEN Num(0) ELSE Num(sprites[i].image.height)
      centerX == Add(oldX, Div(oldWidth, Num(2)))
      centerY == Add(oldY, Div(Div(Mul(oldWidth, oldImageHeight), oldImageWidth),
                               Num(2)))
      startPointerDistance ==
        Hypot(Sub(transformation.pointerStartX, centerX),
              Sub(transformation.pointerStartY, centerY))
      currentPointerDistance ==
        Hypot(Sub(transformation.pointerCurrentX, centerX),
              Sub(transformation.pointerCurrentY, centerY))
  IN  IF NumEq(transformation.pointerCurrentX, transformation.pointerStartX)
         /\ NumEq(transformation.pointerCurrentY, transformation.pointerStartY)
      THEN [kind |-> "Scale", spriteId |-> transformation.spriteId,
            newWidth |-> oldWidth]
      ELSE [kind |-> "Scale", spriteId |-> transformation.spriteId,
            newWidth |-> Div(Mul(oldWidth, currentPointerDistance),
                             startPointerDistance)]

finalizePendingSpriteTransformation(transformation, sprites) ==
  CASE transformation.kind = "Translate" ->
         finalizePendingSpriteTranslation(transformation, sprites)
    [] transformation.kind = "Scale" ->
         finalizePendingSpriteScaling(transformation, sprites)

applyPendingTransformation(transformation, sprites) ==
  applyAction(finalizePendingSpriteTransformation(transformation, sprites), sprites)

\* ----------------------------------------------------------- derived state
RECURSIVE FoldActions(_, _, _)
FoldActions(actions, k, sprites) ==
  IF k > Len(actions) THEN sprites
  ELSE FoldActions(actions, k + 1, applyAction(actions[k], sprites))

getSprites(actions, pendingTransformation) ==
  LET sprites == FoldActions(actions, 1, <<>>)
  IN  IF pendingTransformation # NoPending
      THEN applyPendingTransformation(pendingTransformation, sprites)
      ELSE sprites

\* faulty variant: the names are not compared
areSpritesEqualButName(a, b) ==
  /\ a.id = b.id
  /\ a.image = b.image
  /\ NumEq(a.x, b.x)
  /\ NumEq(a.y, b.y)
  /\ NumEq(a.width, b.width)

areSpritesEqual(a, b) ==
  /\ a.name = b.name
  /\ a.id = b.id
  /\ a.image = b.image
  /\ NumEq(a.x, b.x)
  /\ NumEq(a.y, b.y)
  /\ NumEq(a.width, b.width)

areSpriteArraysEqual(a, b) ==
  Len(a) = Len(b) /\ \A i \in 1..Len(a) : areSpritesEqual(a[i], b[i])

RECURSIVE MeaningfulFrom(_, _, _, _)
MeaningfulFrom(actions, k, sprites, out) ==
  IF k > Len(actions) THEN out
  ELSE LET newSprites == applyAction(actions[k], sprites)
       IN  IF ~areSpriteArraysEqual(sprites, newSprites)
           THEN MeaningfulFrom(actions, k + 1, newSprites, Append(out, actions[k]))
           ELSE MeaningfulFrom(actions, k + 1, sprites, out)

getMeaningfulActions(actions) == MeaningfulFrom(actions, 1, <<>>, <<>>)

\* ------------------------------------------------------- export / import
\* A parsed JSON value as typeof sees it: t is "string", "number" or another
\* type name; s is the text of a string, v the value of a number.
JString(str) == [t |-> "string", s |-> str, v |-> Num(0)]

JNumber(val) == [t |-> "number", s |-> <<>>, v |-> val]

JUndefined == [t |-> "undefined", s |-> <<>>, v |-> Num(0)]

MAX_IMPORT_ASPECT_RATIO_DIFF == Rat(1, 1000)

\* null, whose typeof is "object"
JNull == [t |-> "object", s |-> <<>>, v |-> Num(0)]

\* JSON.parse of the JSON.stringify of a number: a finite number is written
\* with the digits that read back as the same number, Infinity, -Infinity and
\* NaN are written as null
JsonNumber(val) == IF IsFinite(val) THEN JNumber(val) ELSE JNull

\* the records of JSON.parse(serializeSpritesAsJsonString(sprites))
serializeSprites(sprites) ==
  [isArray |-> TRUE,
   sprites |->
     [i \in 1..Len(sprites) |->
        [isObject |-> TRUE,
         spriteName |-> JString(sprites[i].name),
         imageFileName |-> JString(sprites[i].image.name),
         imageSha256 |-> JString(sprites[i].image.sha256),
         x |-> JsonNumber(sprites[i].x),
         y |-> JsonNumber(sprites[i].y),
         width |-> JsonNumber(sprites[i].width),
         height |-> JsonNumber(HeightOf(sprites[i].width, sprites[i].image))]]]

ImportFailure(kind, fileIndex, spriteIndex, field) ==
  [succeeded |-> FALSE,
   error |-> [kind |-> kind, fileIndex |-> fileIndex,
              spriteIndex |-> spriteIndex, field |-> field]]

\* faulty variant: a hash that no image has finds the first image of the library
IndexOfSha256OrFirst(imageFiles, sha256) ==
  IF \E i \in 1..Len(imageFiles) : imageFiles[i].sha256 = sha256
  THEN CHOOSE i \in 1..Len(imageFiles) :
         imageFiles[i].sha256 = sha256
         /\ \A j \in 1..(i - 1) : imageFiles[j].sha256 # sha256
  ELSE IF Len(imageFiles) > 0 THEN 1 ELSE 0

IndexOfSha256(imageFiles, sha256) ==
  IF \E i \in 1..Len(imageFiles) : imageFiles[i].sha256 = sha256
  THEN CHOOSE i \in 1..Len(imageFiles) :
         imageFiles[i].sha256 = sha256
         /\ \A j \in 1..(i - 1) : imageFiles[j].sha256 # sha256
  ELSE 0

\* the checks on files[fileIndex].sprites[spriteIndex]; indices are 0-based in
\* the messages.  Returns a failure, or [succeeded |-> TRUE, ideal |-> entry].
CheckSprite(sprite, imageFiles, fileIndex, spriteIndex) ==
  LET imageIndex == IndexOfSha256(imageFiles, sprite.imageSha256.s)
      image == imageFiles[imageIndex]
      IsFiniteNumber(j) == j.t = "number" /\ IsFinite(j.v)
  IN  IF ~sprite.isObject
      THEN ImportFailure("NotAnObject", fileIndex, spriteIndex, "")
      ELSE IF sprite.spriteName.t # "string"
      THEN ImportFailure("NotAString", fileIndex, spriteIndex, "spriteName")
      ELSE IF sprite.imageFileName.t # "string"
      THEN ImportFailure("NotAString", fileIndex, spriteIndex, "imageFileName")
      ELSE IF sprite.imageSha256.t # "string"
      THEN ImportFailure("NotAString", fileIndex, spriteIndex, "imageSha256")
      ELSE IF imageIndex = 0
      THEN ImportFailure("ImageNotFound", fileIndex, spriteIndex, "imageSha256")
      ELSE IF ~IsFiniteNumber(sprite.x)
      THEN ImportFailure("NotAFiniteNumber", fileIndex, spriteIndex, "x")
      ELSE IF ~IsFiniteNumber(sprite.y)
      THEN ImportFailure("NotAFiniteNumber", fileIndex, spriteIndex, "y")
      ELSE IF ~(IsFiniteNumber(sprite.width) /\ Leq(Num(0), sprite.width.v))
      THEN ImportFailure("NotANonNegativeFiniteNumber", fileIndex, spriteIndex,
                         "width")
      ELSE IF ~(IsFiniteNumber(sprite.height) /\ Leq(Num(0), sprite.height.v))
      THEN ImportFailure("NotANonNegativeFiniteNumber", fileIndex, spriteIndex,
                         "height")
      ELSE IF ~Leq(Sub(Div(sprite.width.v, sprite.height.v),
                       Div(Num(image.width), Num(image.height))),
                   MAX_IMPORT_ASPECT_RATIO_DIFF)
      THEN ImportFailure("AspectRatio", fileIndex, spriteIndex, "width / .height")
      ELSE [succeeded |-> TRUE,
            ideal |-> [spriteName |-> sprite.spriteName.s,
                       image |-> image,
                       x |-> sprite.x.v, y |-> sprite.y.v,
                       width |-> sprite.width.v]]

\* the two nested loops, from files[fileIndex].sprites[spriteIndex] on; the
\* "not an array" message carries no index, which -1 stands for
RECURSIVE ImportFrom(_, _, _, _, _)
ImportFrom(jsonObjects, imageFiles, fileIndex, spriteIndex, idealSprites) ==
  IF fileIndex >= Len(jsonObjects)
  THEN [succeeded |-> TRUE,
        action |-> [kind |-> "BulkImport", idealSprites |-> idealSprites]]
  ELSE LET file == jsonObjects[fileIndex + 1]
       IN  IF ~file.isArray THEN ImportFailure("NotAnArray", -1, -1, "")
           ELSE IF spriteIndex >= Len(file.sprites)
           THEN ImportFrom(jsonObjects, imageFiles, fileIndex + 1, 0, idealSprites)
           ELSE LET r == CheckSprite(file.sprites[spriteIndex + 1], imageFiles,
                                     fileIndex, spriteIndex)
                IN  IF ~r.succeeded THEN r
                    ELSE ImportFrom(jsonObjects, imageFiles, fileIndex,
                                    spriteIndex + 1, Append(idealSprites, r.ideal))

\* faulty variant: when a later document is rejected, the first document alone
\* is imported
importSpriteDotJsonFirstDocument(jsonObjects, imageFiles) ==
  LET result == ImportFrom(jsonObjects, imageFiles, 0, 0, <<>>)
  IN  IF result.succeeded \/ Len(jsonObjects) < 2
      THEN result
      ELSE ImportFrom(<<jsonObjects[1]>>, imageFiles, 0, 0, <<>>)

importSpriteDotJson(jsonObjects, imageFiles) ==
  ImportFrom(jsonObjects, imageFiles, 0, 0, <<>>)

\* ------------------------------------------------------------------ picker
\* canvasWidthInput and canvasHeightInput are strings of the same kind as names
isNonNegativeIntegerString(value) ==
  Len(value) >= 1 /\ \A i \in 1..Len(value) : IsDigit(value[i])

CanvasDimension(input) ==
  IF isNonNegativeIntegerString(input) THEN ParseInt(input) ELSE 0

\* The rendered pixel of a sprite at the pointer has alpha > 0.  Library
\* images are opaque rectangles; drawImage draws nothing when an argument is
\* not finite or the destination rectangle is empty.
PixelIsOpaque(sprite, pointerX, pointerY) ==
  LET h == HeightOf(sprite.width, sprite.image)
  IN  /\ IsFinite(sprite.x) /\ IsFinite(sprite.y)
      /\ IsFinite(sprite.width) /\ IsFinite(h)
      /\ Leq(sprite.x, pointerX) /\ Lt(pointerX, Add(sprite.x, sprite.width))
      /\ Leq(sprite.y, pointerY) /\ Lt(pointerY, Add(sprite.y, h))

NoSprite == 0

\* faulty variant: the loop runs from the bottom sprite up
SelectedIndexFromBottom(pointerX, pointerY, sprites, canvasWidthInput, canvasHeightInput) ==
  LET hits == { i \in 1..Len(sprites) : PixelIsOpaque(sprites[i], pointerX, pointerY) }
  IN  IF CanvasDimension(canvasWidthInput) = 0
         \/ CanvasDimension(canvasHeightInput) = 0
         \/ hits = {}
      THEN NoSprite
      ELSE CHOOSE i \in hits : \A j \in hits : i <= j

\* the index (1-based, 0 for null) in getSprites(state) of the selected sprite
SelectedIndex(pointerX, pointerY, sprites, canvasWidthInput, canvasHeightInput) ==
  LET hits == { i \in 1..Len(sprites) : PixelIsOpaque(sprites[i], pointerX, pointerY) }
  IN  IF CanvasDimension(canvasWidthInput) = 0
         \/ CanvasDimension(canvasHeightInput) = 0
         \/ hits = {}
      THEN NoSprite
      ELSE MaxOf(hits)

\* ------------------------------------------------------------- image order
\* UTF-16 code-unit order of the characters that the model's strings use
CHARS ==
  <<" ", "(", ")", ".", "/", "0", "1", "2", "3", "4", "5", "6", "7", "8", "9",
    "\\", "a", "b", "c", "d", "e", "f", "g", "h", "i", "j", "k", "l", "m", "n",
    "o", "p", "q", "r", "s", "t", "u", "v", "w", "x", "y", "z">>

CharCode(c) == CHOOSE i \in 1..Len(CHARS) : CHARS[i] = c

\* a < b on strings
RECURSIVE StringLess(_, _)
StringLess(a, b) ==
  IF Len(b) = 0 THEN FALSE
  ELSE IF Len(a) = 0 THEN TRUE
  ELSE IF CharCode(a[1]) # CharCode(b[1]) THEN CharCode(a[1]) < CharCode(b[1])
  ELSE StringLess(Tail(a), Tail(b))

compareStrings(a, b) == IF StringLess(a, b) THEN -1 ELSE IF StringLess(b, a) THEN 1 ELSE 0

\* images.sort((a, b) => compareStrings(a.name, b.name)); the sort is stable
RECURSIVE InsertByName(_, _)
InsertByName(sorted, image) ==
  IF Len(sorted) = 0 THEN <<image>>
  ELSE IF compareStrings(image.name, sorted[Len(sorted)].name) >= 0
  THEN Append(sorted, image)
  ELSE Append(InsertByName(SubSeq(sorted, 1, Len(sorted) - 1), image),
              sorted[Len(sorted)])

RECURSIVE SortByName(_)
SortByName(images) ==
  IF Len(images) = 0 THEN <<>>
  ELSE InsertByName(SortByName(SubSeq(images, 1, Len(images) - 1)),
                    images[Len(images)])

\* ------------------------------------------------------------ environment
\* What the user and the browser can supply.
ImageA ==
  [name |-> <<"a", ".", "p", "n", "g">>, width |-> 2, height |-> 2,
   sha256 |-> <<"h", "a">>]

ImageB ==
  [name |-> <<"b", ".", "p", "n", "g">>, width |-> 4, height |-> 2,
   sha256 |-> <<"h", "b">>]

\* an uploaded image file: its name, whether the browser decodes and hashes
\* it, and the ImageFile that loadImageFileFromArrayBuffer then resolves to
ImageUploadFile(image, decodes) ==
  [name |-> image.name, decodes |-> decodes, image |-> image]

ImageUploadBatches ==
  { <<ImageUploadFile(ImageB, TRUE), ImageUploadFile(ImageA, TRUE)>>,
    <<ImageUploadFile(ImageA, TRUE), ImageUploadFile(ImageB, FALSE)>>,
    <<ImageUploadFile(ImageA, TRUE),
      ImageUploadFile([ImageB EXCEPT !.name = <<"b", ".", "t", "x", "t">>], TRUE)>> }

ExportRecordOfA ==
  [isObject |-> TRUE,
   spriteName |-> JString(<<"a">>),
   imageFileName |-> JString(ImageA.name),
   imageSha256 |-> JString(ImageA.sha256),
   x |-> JNumber(Num(1)), y |-> JNumber(Num(0)),
   width |-> JNumber(Num(2)), height |-> JNumber(Num(2))]

\* an uploaded sprites.json file: its name, whether JSON.parse accepts its
\* text, and the value that JSON.parse then returns
JsonUploadFile(name, parses, json) == [name |-> name, parses |-> parses, json |-> json]

SPRITES_JSON == <<"s", ".", "j", "s", "o", "n">>

JsonUploadBatches ==
  { <<JsonUploadFile(SPRITES_JSON, TRUE, [isArray |-> TRUE, sprites |-> <<>>])>>,
    <<JsonUploadFile(SPRITES_JSON, TRUE,
                     [isArray |-> TRUE, sprites |-> <<ExportRecordOfA>>])>> }

\* pointer positions on the canvas, as getPointerCoords reports them
Point(px, py) == [x |-> Num(px), y |-> Num(py)]

PointerPositions == { Point(0, 0), Point(1, 1) }

\* what the user types into the rename prompt
PromptAnswers == { <<"a">> }

LayerChangeKinds == { "MoveUp", "MoveDown", "MoveToTop", "MoveToBottom" }

\* what the user types into the canvas width and height inputs
CanvasInputs == { <<"8">>, <<"0">>, <<>> }

\* ------------------------------------------------------------------- state
VARIABLES
  actions,                \* state.actions
  redoStack,              \* state.redoStack
  pendingTransformation,  \* state.pendingTransformation, NoPending for null
  pasteBuffer,            \* state.pasteBuffer
  imageFiles,             \* state.imageFiles
  isProcessingImageFile,  \* state.isProcessingImageFile
  isProcessingJsonFile,   \* state.isProcessingJsonFile
  isMouseOverCanvas,      \* state.isMouseOverCanvas
  canvasWidthInput,       \* state.canvasWidthInput
  canvasHeightInput,      \* state.canvasHeightInput
  pointer,                \* mouseX, mouseY in canvas coordinates
  imageUpload,            \* the files of the Promise.all of an image upload in flight
  jsonUpload              \* the files of the Promise.all of a JSON upload in flight

vars ==
  <<actions, redoStack, pendingTransformation, pasteBuffer, imageFiles,
    isProcessingImageFile, isProcessingJsonFile, isMouseOverCanvas,
    canvasWidthInput, canvasHeightInput, pointer, imageUpload, jsonUpload>>

logVars == <<actions, redoStack, pendingTransformation, pasteBuffer>>

uploadVars ==
  <<imageFiles, isProcessingImageFile, isProcessingJsonFile, imageUpload, jsonUpload>>

viewVars == <<isMouseOverCanvas, canvasWidthInput, canvasHeightInput, pointer>>

Init ==
  /\ actions = <<>>
  /\ redoStack = <<>>
  /\ pendingTransformation = NoPending
  /\ pasteBuffer = [mode |-> "NoOp", value |-> Num(0)]
  /\ imageFiles = <<>>
  /\ isProcessingImageFile = FALSE
  /\ isProcessingJsonFile = FALSE
  /\ isMouseOverCanvas = FALSE
  /\ canvasWidthInput = <<"8">>
  /\ canvasHeightInput = <<"8">>
  /\ pointer = Point(0, 0)
  /\ imageUpload = <<>>
  /\ jsonUpload = <<>>

\* getPointerCoords() returns null
PointerCoordsAreNull ==
  CanvasDimension(canvasWidthInput) = 0 \/ CanvasDimension(canvasHeightInput) = 0

\* getSelectedSprite(pointerX, pointerY, this.state, ghostCanvas), as a set: empty
\* for null, otherwise the one selected sprite
SelectedSprites ==
  LET sprites == getSprites(actions, pendingTransformation)
      index == SelectedIndex(pointer.x, pointer.y, sprites,
                             canvasWidthInput, canvasHeightInput)
  IN  IF index = NoSprite THEN {} ELSE {sprites[index]}

\* the common form of the edits: append one action and clear the redo stack
AppendAction(action) ==
  /\ actions' = Append(actions, action)
  /\ redoStack' = <<>>

\* --------------------------------------------------------- image library
onImageFileInputChange(files) ==
  /\ ~isProcessingImageFile
  /\ isProcessingImageFile' = TRUE
  /\ imageUpload' = IF \E i \in 1..Len(files) : ~isImageFileName(files[i].name)
                    THEN <<>>
                    ELSE files
  /\ UNCHANGED <<imageFiles, isProcessingJsonFile, jsonUpload, logVars, viewVars>>

\* every arrayBuffer and decode of the batch has settled
ImageUploadSettles ==
  /\ imageUpload # <<>>
  /\ imageUpload' = <<>>
  /\ IF \A i \in 1..Len(imageUpload) : imageUpload[i].decodes
     THEN /\ imageFiles' = SortByName(imageFiles
                 \o [i \in 1..Len(imageUpload) |-> imageUpload[i].image])
          /\ isProcessingImageFile' = FALSE
     ELSE UNCHANGED <<imageFiles, isProcessingImageFile>>
  /\ UNCHANGED <<isProcessingJsonFile, jsonUpload, logVars, viewVars>>

createSpriteFromImage(image) ==
  /\ AppendAction([kind |-> "Create", image |-> image])
  /\ UNCHANGED <<pendingTransformation, pasteBuffer, uploadVars, viewVars>>

\* ------------------------------------------------------------ JSON import
onJsonFileInputChange(files) ==
  /\ ~isProcessingJsonFile
  /\ isProcessingJsonFile' = TRUE
  /\ jsonUpload' = IF \E i \in 1..Len(files) : ~EndsWith(files[i].name, <<".", "j", "s", "o", "n">>)
                   THEN <<>>
                   ELSE files
  /\ UNCHANGED <<imageFiles, isProcessingImageFile, imageUpload, logVars, viewVars>>

\* faulty variant: one BulkImport is appended for every document
JsonUploadSettlesPerDocument ==
  /\ jsonUpload # <<>>
  /\ jsonUpload' = <<>>
  /\ IF \A i \in 1..Len(jsonUpload) : jsonUpload[i].parses
     THEN LET importResult ==
                importSpriteDotJson([i \in 1..Len(jsonUpload) |-> jsonUpload[i].json],
                                    imageFiles)
          IN  /\ isProcessingJsonFile' = FALSE
              /\ actions' = IF ~importResult.succeeded
                            THEN actions
                            ELSE actions \o
                                 [i \in 1..Len(jsonUpload) |->
                                    importSpriteDotJson(<<jsonUpload[i].json>>,
                                                        imageFiles).action]
     ELSE UNCHANGED <<isProcessingJsonFile, actions>>
  /\ UNCHANGED <<redoStack, pendingTransformation, pasteBuffer, imageFiles,
                 isProcessingImageFile, imageUpload, viewVars>>

\* every arrayBuffer and JSON.parse of the batch has settled
JsonUploadSettles ==
  /\ jsonUpload # <<>>
  /\ jsonUpload' = <<>>
  /\ IF \A i \in 1..Len(jsonUpload) : jsonUpload[i].parses
     THEN LET importResult ==
                importSpriteDotJson([i \in 1..Len(jsonUpload) |-> jsonUpload[i].json],
                                    imageFiles)
          IN  /\ isProcessingJsonFile' = FALSE
              /\ actions' = IF ~importResult.succeeded
                            THEN actions
                            ELSE Append(actions, importResult.action)
     ELSE UNCHANGED <<isProcessingJsonFile, actions>>
  /\ UNCHANGED <<redoStack, pendingTransformation, pasteBuffer, imageFiles,
                 isProcessingImageFile, imageUpload, viewVars>>

\* ------------------------------------------------------- pointer and keys
onCanvasMouseEnter ==
  /\ isMouseOverCanvas' = TRUE
  /\ UNCHANGED <<logVars, uploadVars, canvasWidthInput, canvasHeightInput, pointer>>

onCanvasMouseLeave ==
  /\ isMouseOverCanvas' = FALSE
  /\ UNCHANGED <<logVars, uploadVars, canvasWidthInput, canvasHeightInput, pointer>>

onCanvasWidthInputChange(value) ==
  /\ canvasWidthInput' = value
  /\ UNCHANGED <<logVars, uploadVars, isMouseOverCanvas, canvasHeightInput, pointer>>

onCanvasHeightInputChange(value) ==
  /\ canvasHeightInput' = value
  /\ UNCHANGED <<logVars, uploadVars, isMouseOverCanvas, canvasWidthInput, pointer>>

onWindowMouseMove(p) ==
  /\ pointer' = p
  /\ pendingTransformation' =
       IF PointerCoordsAreNull \/ pendingTransformation = NoPending
       THEN pendingTransformation
       ELSE [pendingTransformation EXCEPT !.pointerCurrentX = p.x,
                                          !.pointerCurrentY = p.y]
  /\ UNCHANGED <<actions, redoStack, pasteBuffer, uploadVars, isMouseOverCanvas,
                 canvasWidthInput, canvasHeightInput>>

\* faulty variant: Escape also drops the last action of the log
KeydownEscapeDropsLast ==
  /\ pendingTransformation # NoPending
  /\ pendingTransformation' = NoPending
  /\ actions' = SubSeq(actions, 1, Len(actions) - 1)
  /\ UNCHANGED <<redoStack, pasteBuffer, uploadVars, viewVars>>

\* keydown of Escape
KeydownEscape ==
  /\ pendingTransformation # NoPending
  /\ pendingTransformation' = NoPending
  /\ UNCHANGED <<actions, redoStack, pasteBuffer, uploadVars, viewVars>>

\* faulty variant: a keydown also starts a gesture while one is pending
KeydownStartGestureAgain(kind) ==
  /\ isMouseOverCanvas
  /\ ~PointerCoordsAreNull
  /\ ~ \/ Lt(pointer.x, Num(0))
       \/ Lt(Num(CanvasDimension(canvasWidthInput)), pointer.x)
       \/ Lt(pointer.y, Num(0))
       \/ Lt(Num(CanvasDimension(canvasHeightInput)), pointer.y)
  /\ \E selectedSprite \in SelectedSprites :
       pendingTransformation' =
         [kind |-> kind,
          spriteId |-> selectedSprite.id,
          pointerStartX |-> pointer.x, pointerStartY |-> pointer.y,
          pointerCurrentX |-> pointer.x, pointerCurrentY |-> pointer.y]
  /\ UNCHANGED <<actions, redoStack, pasteBuffer, uploadVars, viewVars>>

\* keydown of "t" (kind Translate) or "s" (kind Scale)
KeydownStartGesture(kind) ==
  /\ isMouseOverCanvas
  /\ pendingTransformation = NoPending
  /\ ~PointerCoordsAreNull
  /\ ~ \/ Lt(pointer.x, Num(0))
       \/ Lt(Num(CanvasDimension(canvasWidthInput)), pointer.x)
       \/ Lt(pointer.y, Num(0))
       \/ Lt(Num(CanvasDimension(canvasHeightInput)), pointer.y)
  /\ \E selectedSprite \in SelectedSprites :
       pendingTransformation' =
         [kind |-> kind,
          spriteId |-> selectedSprite.id,
          pointerStartX |-> pointer.x, pointerStartY |-> pointer.y,
          pointerCurrentX |-> pointer.x, pointerCurrentY |-> pointer.y]
  /\ UNCHANGED <<actions, redoStack, pasteBuffer, uploadVars, viewVars>>

\* faulty variant: a finalized action that changes nothing is not appended
KeyupFinalizeGestureFiltered ==
  /\ pendingTransformation # NoPending
  /\ IF getSprites(actions, pendingTransformation) = getSprites(actions, NoPending)
     THEN UNCHANGED <<actions, redoStack>>
     ELSE AppendAction(finalizePendingSpriteTransformation(
                         pendingTransformation, getSprites(actions, NoPending)))
  /\ pendingTransformation' = NoPending
  /\ UNCHANGED <<pasteBuffer, uploadVars, viewVars>>

\* keyup of "t" with a pending Translate, or of "s" with a pending Scale
KeyupFinalizeGesture ==
  /\ pendingTransformation # NoPending
  /\ AppendAction(finalizePendingSpriteTransformation(
                    pendingTransformation, getSprites(actions, NoPending)))
  /\ pendingTransformation' = NoPending
  /\ UNCHANGED <<pasteBuffer, uploadVars, viewVars>>

\* array.slice(0, -1)
AllButLast(array) ==
  IF Len(array) = 0 THEN <<>> ELSE SubSeq(array, 1, Len(array) - 1)

\* faulty variant: array.slice(0, 1)
FirstOnly(array) ==
  IF Len(array) = 0 THEN <<>> ELSE <<array[1]>>

\* array.slice(-1)
LastOnly(array) ==
  IF Len(array) = 0 THEN <<>> ELSE <<array[Len(array)]>>

\* faulty variant: the undone action goes to the bottom of the redo stack
UndoUpdatePushesBelow(st) ==
  LET meaningfulPrevStateActions == getMeaningfulActions(st.actions)
  IN  [actions |-> AllButLast(meaningfulPrevStateActions),
       redoStack |-> LastOnly(meaningfulPrevStateActions) \o st.redoStack]

\* the state update of the undo branch
UndoUpdate(st) ==
  LET meaningfulPrevStateActions == getMeaningfulActions(st.actions)
  IN  [actions |-> AllButLast(meaningfulPrevStateActions),
       redoStack |-> st.redoStack \o LastOnly(meaningfulPrevStateActions)]

\* faulty variant: the redone action goes to the front of the log
RedoUpdatePrepends(st) ==
  [actions |-> LastOnly(st.redoStack) \o st.actions,
   redoStack |-> AllButLast(st.redoStack)]

\* the state update of the redo branch
RedoUpdate(st) ==
  [actions |-> st.actions \o LastOnly(st.redoStack),
   redoStack |-> AllButLast(st.redoStack)]

History == [actions |-> actions, redoStack |-> redoStack]

\* faulty variant: the undo is accepted while a gesture is pending
KeyupUndoWhilePending ==
  /\ Len(actions) > 0
  /\ actions' = UndoUpdate(History).actions
  /\ redoStack' = UndoUpdate(History).redoStack
  /\ UNCHANGED <<pendingTransformation, pasteBuffer, uploadVars, viewVars>>

\* keyup of "z"
KeyupUndo ==
  /\ Len(actions) > 0
  /\ pendingTransformation = NoPending
  /\ actions' = UndoUpdate(History).actions
  /\ redoStack' = UndoUpdate(History).redoStack
  /\ UNCHANGED <<pendingTransformation, pasteBuffer, uploadVars, viewVars>>

\* keyup of "y"
KeyupRedo ==
  /\ Len(redoStack) > 0
  /\ pendingTransformation = NoPending
  /\ actions' = RedoUpdate(History).actions
  /\ redoStack' = RedoUpdate(History).redoStack
  /\ UNCHANGED <<pendingTransformation, pasteBuffer, uploadVars, viewVars>>

\* faulty variant: the later branches do not ask for no gesture
KeyupOnSpriteWhilePending == ~PointerCoordsAreNull

\* what every later branch of onWindowKeyup needs before it looks for the
\* selected sprite: pointer coordinates and no gesture
KeyupOnSprite ==
  /\ ~PointerCoordsAreNull
  /\ pendingTransformation = NoPending

\* keyup of "x"
KeyupDelete ==
  /\ KeyupOnSprite
  /\ \E selectedSprite \in SelectedSprites :
       AppendAction([kind |-> "Delete", spriteId |-> selectedSprite.id])
  /\ UNCHANGED <<pendingTransformation, pasteBuffer, uploadVars, viewVars>>

\* keyup of "d"
KeyupDuplicate ==
  /\ KeyupOnSprite
  /\ \E selectedSprite \in SelectedSprites :
       AppendAction([kind |-> "Duplicate", spriteId |-> selectedSprite.id])
  /\ UNCHANGED <<pendingTransformation, pasteBuffer, uploadVars, viewVars>>

\* keyup of "w"
KeyupCopyWidth ==
  /\ KeyupOnSprite
  /\ \E selectedSprite \in SelectedSprites :
       /\ IsCopied(selectedSprite.width)
       /\ pasteBuffer' = [mode |-> "Width", value |-> selectedSprite.width]
  /\ UNCHANGED <<actions, redoStack, pendingTransformation, uploadVars, viewVars>>

\* keyup of "h"
KeyupCopyHeight ==
  /\ KeyupOnSprite
  /\ \E selectedSprite \in SelectedSprites :
       /\ IsCopied(HeightOf(selectedSprite.width, selectedSprite.image))
       /\ pasteBuffer' =
            [mode |-> "Height",
             value |-> HeightOf(selectedSprite.width, selectedSprite.image)]
  /\ UNCHANGED <<actions, redoStack, pendingTransformation, uploadVars, viewVars>>

applyWidthPaste(target, width) ==
  AppendAction([kind |-> "Scale", spriteId |-> target.id, newWidth |-> width])

\* faulty variant: the copied height is pasted as a width
applyHeightPasteAsWidth(target, height) ==
  AppendAction([kind |-> "Scale", spriteId |-> target.id, newWidth |-> height])

applyHeightPaste(target, height) ==
  AppendAction([kind |-> "Scale", spriteId |-> target.id,
                newWidth |-> Div(Mul(height, Num(target.image.width)),
                                 Num(target.image.height))])

\* faulty variant: an empty buffer pastes the width that the target has
applyPasteBufferOwnWidth(target) ==
  CASE pasteBuffer.mode = "NoOp" -> applyWidthPaste(target, target.width)
    [] pasteBuffer.mode = "Width" -> applyWidthPaste(target, pasteBuffer.value)
    [] pasteBuffer.mode = "Height" -> applyHeightPaste(target, pasteBuffer.value)

applyPasteBuffer(target) ==
  CASE pasteBuffer.mode = "NoOp" -> UNCHANGED <<actions, redoStack>>
    [] pasteBuffer.mode = "Width" -> applyWidthPaste(target, pasteBuffer.value)
    [] pasteBuffer.mode = "Height" -> applyHeightPaste(target, pasteBuffer.value)

\* keyup of "v"
KeyupPaste ==
  /\ KeyupOnSprite
  /\ \E selectedSprite \in SelectedSprites : applyPasteBuffer(selectedSprite)
  /\ UNCHANGED <<pendingTransformation, pasteBuffer, uploadVars, viewVars>>

\* keyup of "u" (MoveUp), "i" (MoveToTop), "j" (MoveDown) or "k" (MoveToBottom)
KeyupReorderLayers(layerChangeKind) ==
  /\ KeyupOnSprite
  /\ \E selectedSprite \in SelectedSprites :
       AppendAction([kind |-> "ReorderLayers", spriteId |-> selectedSprite.id,
                     layerChangeKind |-> layerChangeKind])
  /\ UNCHANGED <<pendingTransformation, pasteBuffer, uploadVars, viewVars>>

\* /^\s*$/.test(newName)
IsBlank(str) == \A i \in 1..Len(str) : str[i] = " "

\* keyup of "n", the prompt answered with newName
KeyupRename(newName) ==
  /\ KeyupOnSprite
  /\ ~IsBlank(newName)
  /\ \E selectedSprite \in SelectedSprites :
       AppendAction([kind |-> "Rename", spriteId |-> selectedSprite.id,
                     idealNewName |-> newName])
  /\ UNCHANGED <<pendingTransformation, pasteBuffer, uploadVars, viewVars>>

\* ------------------------------------------------------------ specification
\* The bounds of the exploration.  An edit is explored, and a gesture is begun,
\* while the log is shorter than MaxLog; an import, which keeps the redo stack,
\* is begun and settles while log and redo stack together are; an image upload
\* is begun while the library stays within MaxImages.
LogHasRoom == Len(actions) < MaxLog

HistoryHasRoom == Len(actions) + Len(redoStack) < MaxLog

LibraryHasRoom(files) == Len(imageFiles) + Len(files) <= MaxImages

\* no upload is in flight
Quiet == imageUpload = <<>> /\ jsonUpload = <<>>

\* The session in which the user waits for an upload to settle before the
\* next input and leaves the canvas size inputs at their initial values.
Next ==
  \/ \E files \in ImageUploadBatches :
       Quiet /\ LibraryHasRoom(files) /\ onImageFileInputChange(files)
  \/ ImageUploadSettles
  \/ \E i \in 1..Len(imageFiles) :
       Quiet /\ LogHasRoom /\ createSpriteFromImage(imageFiles[i])
  \/ \E files \in JsonUploadBatches :
       Quiet /\ HistoryHasRoom /\ onJsonFileInputChange(files)
  \/ HistoryHasRoom /\ JsonUploadSettles
  \/ Quiet /\ onCanvasMouseEnter
  \/ Quiet /\ onCanvasMouseLeave
  \/ \E p \in PointerPositions : Quiet /\ onWindowMouseMove(p)
  \/ Quiet /\ KeydownEscape
  \/ \E kind \in {"Translate", "Scale"} :
       Quiet /\ LogHasRoom /\ KeydownStartGesture(kind)
  \/ Quiet /\ LogHasRoom /\ KeyupFinalizeGesture
  \/ Quiet /\ KeyupUndo
  \/ Quiet /\ KeyupRedo
  \/ Quiet /\ LogHasRoom /\ KeyupDelete
  \/ Quiet /\ LogHasRoom /\ KeyupDuplicate
  \/ Quiet /\ KeyupCopyWidth
  \/ Quiet /\ KeyupCopyHeight
  \/ Quiet /\ LogHasRoom /\ KeyupPaste
  \/ \E layerChangeKind \in LayerChangeKinds :
       Quiet /\ LogHasRoom /\ KeyupReorderLayers(layerChangeKind)
  \/ \E newName \in PromptAnswers : Quiet /\ LogHasRoom /\ KeyupRename(newName)

Spec == Init /\ [][Next]_vars


\* ------------------------------------------------------------- properties
\* prefix is an initial segment of array
IsPrefix(prefix, array) ==
  Len(prefix) <= Len(array) /\ SubSeq(array, 1, Len(prefix)) = prefix

\* the fold of the log step by step: for each action the sprites it is applied
\* to and the sprites it gives
RECURSIVE StepsFrom(_, _, _)
StepsFrom(k, before, steps) ==
  IF k > Len(actions) THEN steps
  ELSE LET after == applyAction(actions[k], before)
       IN  StepsFrom(k + 1, after,
                     Append(steps, [action |-> actions[k],
                                    before |-> before, after |-> after]))

LogSteps == StepsFrom(1, <<>>, <<>>)

\* this step is an accepted redo
IsRedoStep ==
  /\ Len(redoStack) > 0
  /\ pendingTransformation = NoPending
  /\ actions' = RedoUpdate(History).actions
  /\ redoStack' = RedoUpdate(History).redoStack

\* this step is an accepted undo
IsUndoStep ==
  /\ Len(actions) > 0
  /\ pendingTransformation = NoPending
  /\ actions' = UndoUpdate(History).actions
  /\ redoStack' = UndoUpdate(History).redoStack

\* C1: every step that makes the log longer, other than a redo, leaves the
\* redo stack empty.
C1_AppendClearsRedoStack ==
  [][(Len(actions') > Len(actions) /\ ~IsRedoStep) => redoStack' = <<>>]_vars

\* C2: every accepted undo changes the derived sprite sequence by value.
C2_UndoChangesSprites ==
  [][IsUndoStep => ~areSpriteArraysEqual(getSprites(actions', NoPending),
                                         getSprites(actions, NoPending))]_vars

\* C3: with no gesture pending and a non-empty log of meaningful actions only,
\* undo followed by redo gives back the same log and the same redo stack,
\* whatever the redo stack holds.
C3_RedoRestoresUndo ==
  (/\ pendingTransformation = NoPending
   /\ Len(actions) > 0
   /\ getMeaningfulActions(actions) = actions)
  => LET undone == UndoUpdate(History)
     IN  Len(undone.redoStack) > 0 /\ RedoUpdate(undone) = History

C3_Witness ==
  /\ pendingTransformation = NoPending
  /\ Len(actions) > 0
  /\ getMeaningfulActions(actions) = actions
  /\ Len(redoStack) > 0
  /\ redoStack[Len(redoStack)] # actions[Len(actions)]

\* C4 as stated: in every step the new log is the old log with actions appended
\* at the end or the old log with its last element popped.
C4_AppendOrPopLast ==
  [][IsPrefix(actions, actions') \/ actions' = AllButLast(actions)]_vars

\* C4: in every step the new log is the old log with actions appended at the
\* end, or (on undo) the meaningful actions of the old log without the last of
\* them, which is shorter than the old log.
C4_AppendOrUndo ==
  [][\/ IsPrefix(actions, actions')
     \/ /\ IsUndoStep
        /\ actions' = AllButLast(getMeaningfulActions(actions))
        /\ Len(actions') < Len(actions)]_vars

\* an undo here drops a no-op together with a meaningful action
C4_Witness ==
  /\ pendingTransformation = NoPending
  /\ Len(getMeaningfulActions(actions)) > 0
  /\ Len(getMeaningfulActions(actions)) < Len(actions)

\* C5: no two sprites of the derived sequence share a name, pending overlay
\* included.
C5_NamesAreUnique ==
  LET sprites == getSprites(actions, pendingTransformation)
  IN  \A i, j \in 1..Len(sprites) : i # j => sprites[i].name # sprites[j].name

\* two sprites of one image, the second with the name that the first one
\* made the log look for
C5_Witness ==
  LET sprites == getSprites(actions, pendingTransformation)
  IN  \E i, j \in 1..Len(sprites) :
        /\ i < j
        /\ sprites[i].image = sprites[j].image
        /\ sprites[j].name = sprites[i].name \o <<" ", "(", "1", ")">>

IsIdempotentOn(action, sprites) ==
  LET once == applyAction(action, sprites)
  IN  applyAction(action, once) = once

\* the Translate actions of the sprites to the pointer positions
TranslateActions(sprites) ==
  { [kind |-> "Translate", spriteId |-> id, newX |-> p.x, newY |-> p.y] :
      id \in SpriteIds(sprites), p \in PointerPositions }

\* action, a Translate, puts the sprite it names at its coordinates
TranslatePlaces(action, sprites) ==
  LET once == applyAction(action, sprites)
  IN  \A i \in 1..Len(once) :
        once[i].id = action.spriteId =>
          once[i].x = action.newX /\ once[i].y = action.newY

\* C8: a Translate applied twice gives what it gives applied once, and the
\* sprite it names, if live, ends at exactly the action's coordinates: for every
\* Translate of the log on the sprites it was applied to, and for every
\* Translate to a pointer position on the derived sprites.
C8_TranslateIsIdempotent ==
  LET steps == LogSteps
      sprites == IF steps = <<>> THEN <<>> ELSE steps[Len(steps)].after
  IN  /\ \A k \in 1..Len(steps) :
           steps[k].action.kind = "Translate" =>
             /\ IsIdempotentOn(steps[k].action, steps[k].before)
             /\ TranslatePlaces(steps[k].action, steps[k].before)
      /\ \A action \in TranslateActions(sprites) :
           IsIdempotentOn(action, sprites) /\ TranslatePlaces(action, sprites)

\* a Translate that moved its sprite
C8_Witness ==
  \E k \in 1..Len(LogSteps) :
    /\ LogSteps[k].action.kind = "Translate"
    /\ LogSteps[k].after # LogSteps[k].before

\* C9 as stated: every action of the log applied twice gives what it gives
\* applied once.
C9_EveryActionIsIdempotent ==
  \A k \in 1..Len(LogSteps) :
    IsIdempotentOn(LogSteps[k].action, LogSteps[k].before)

\* the action variants that set a sprite's state instead of adding to it
IsAbsoluteAction(action) ==
  \/ action.kind \in {"Delete", "Translate"}
  \/ action.kind = "Scale" /\ IsFinite(action.newWidth)
  \/ /\ action.kind = "ReorderLayers"
     /\ action.layerChangeKind \in {"MoveToTop", "MoveToBottom"}

\* the Delete actions, the Scale actions to width 1 and the ReorderLayers
\* actions to the top and to the bottom of the sprites
AbsoluteActions(sprites) ==
  { [kind |-> "Delete", spriteId |-> id] : id \in SpriteIds(sprites) }
  \cup { [kind |-> "Scale", spriteId |-> id, newWidth |-> Num(1)] :
           id \in SpriteIds(sprites) }
  \cup { [kind |-> "ReorderLayers", spriteId |-> id, layerChangeKind |-> c] :
           id \in SpriteIds(sprites), c \in {"MoveToTop", "MoveToBottom"} }

\* C9: a Delete, a Translate, a Scale to a finite width and a ReorderLayers to
\* the top or to the bottom applied twice give what they give applied once:
\* for every such action of the log on the sprites it was applied to, and for
\* every such action on the derived sprites.
C9_AbsoluteActionIsIdempotent ==
  LET steps == LogSteps
      sprites == IF steps = <<>> THEN <<>> ELSE steps[Len(steps)].after
  IN  /\ \A k \in 1..Len(steps) :
           IsAbsoluteAction(steps[k].action) =>
             IsIdempotentOn(steps[k].action, steps[k].before)
      /\ \A action \in AbsoluteActions(sprites) : IsIdempotentOn(action, sprites)

\* a Scale to a finite width that resized its sprite
C9_Witness ==
  \E k \in 1..Len(LogSteps) :
    /\ LogSteps[k].action.kind = "Scale"
    /\ IsFinite(LogSteps[k].action.newWidth)
    /\ LogSteps[k].after # LogSteps[k].before

\* C10: a pending Scale whose pointer has not moved finalizes to a Scale of
\* exactly the sprite's width, and applying that Scale changes nothing.
C10_ScaleAtRestKeepsWidth ==
  (/\ pendingTransformation # NoPending
   /\ pendingTransformation.kind = "Scale"
   /\ NumEq(pendingTransformation.pointerCurrentX, pendingTransformation.pointerStartX)
   /\ NumEq(pendingTransformation.pointerCurrentY, pendingTransformation.pointerStartY))
  => LET sprites == getSprites(actions, NoPending)
         action == finalizePendingSpriteScaling(pendingTransformation, sprites)
     IN  /\ \A i \in 1..Len(sprites) :
               sprites[i].id = pendingTransformation.spriteId =>
                 NumEq(action.newWidth, sprites[i].width)
         /\ areSpriteArraysEqual(applyAction(action, sprites), sprites)

\* a pending Scale at rest with the pointer at the centre of its sprite
C10_Witness ==
  /\ pendingTransformation # NoPending
  /\ pendingTransformation.kind = "Scale"
  /\ pendingTransformation.pointerCurrentX = pendingTransformation.pointerStartX
  /\ pendingTransformation.pointerCurrentY = pendingTransformation.pointerStartY
  /\ LET sprites == getSprites(actions, NoPending)
     IN  \E i \in 1..Len(sprites) :
           /\ sprites[i].id = pendingTransformation.spriteId
           /\ pendingTransformation.pointerStartX =
                Add(sprites[i].x, Div(sprites[i].width, Num(2)))
           /\ pendingTransformation.pointerStartY =
                Add(sprites[i].y,
                    Div(HeightOf(sprites[i].width, sprites[i].image), Num(2)))


\* ------------------------------------------------- fold of arbitrary logs
\* applyAction and getSprites as functions of their arguments: the log grows
\* by any action of the input set, whoever produced it.  newWidth is a
\* number: a finite one, Infinity or NaN.
ScaleWidthInputs == { Num(0), Num(1), Num(3), PosInf, NaN }

ActionInputs ==
  { [kind |-> "Create", image |-> image] : image \in {ImageA, ImageB} }
  \cup { [kind |-> "BulkImport",
          idealSprites |-> <<[spriteName |-> <<"a">>, image |-> ImageA,
                              x |-> Num(1), y |-> Num(0), width |-> Num(2)]>>],
         [kind |-> "BulkImport",
          idealSprites |-> <<[spriteName |-> <<"a">>, image |-> ImageA,
                              x |-> Num(0), y |-> Num(0), width |-> Num(2)],
                             [spriteName |-> <<"b">>, image |-> ImageB,
                              x |-> Num(1), y |-> Num(0), width |-> Num(4)],
                             [spriteName |-> <<"a">>, image |-> ImageA,
                              x |-> Num(1), y |-> Num(1), width |-> Num(1)]>>] }
  \cup { [kind |-> "Delete", spriteId |-> id] : id \in 0..(MaxLog - 1) }
  \cup { [kind |-> "Duplicate", spriteId |-> id] : id \in 0..(MaxLog - 1) }
  \cup { [kind |-> "Translate", spriteId |-> id, newX |-> p.x, newY |-> p.y] :
           id \in 0..(MaxLog - 1), p \in PointerPositions }
  \cup { [kind |-> "Scale", spriteId |-> id, newWidth |-> w] :
           id \in 0..(MaxLog - 1), w \in ScaleWidthInputs }
  \cup { [kind |-> "ReorderLayers", spriteId |-> id, layerChangeKind |-> c] :
           id \in 0..(MaxLog - 1), c \in LayerChangeKinds }
  \cup { [kind |-> "Rename", spriteId |-> id, idealNewName |-> newName] :
           id \in 0..(MaxLog - 1), newName \in PromptAnswers }

\* the next iteration of the loop of getSprites, on a log one action longer
FoldInput(action) ==
  /\ actions' = Append(actions, action)
  /\ UNCHANGED <<redoStack, pendingTransformation, pasteBuffer, uploadVars, viewVars>>

NextFold == \E action \in ActionInputs : LogHasRoom /\ FoldInput(action)

SpecFold == Init /\ [][NextFold]_vars

\* the centre of a sprite: (x + width / 2, y + height / 2)
CenterOf(sprite) ==
  [x |-> Add(sprite.x, Div(sprite.width, Num(2))),
   y |-> Add(sprite.y,
             Div(Div(Mul(sprite.width, Num(sprite.image.height)),
                     Num(sprite.image.width)), Num(2)))]

\* before and after are the same sprite but for a Scale to newWidth about its
\* centre
IsScaledAboutCenter(before, after, newWidth) ==
  LET oldHeight == Div(Mul(before.width, Num(before.image.height)),
                       Num(before.image.width))
      newHeight == Div(Mul(newWidth, Num(before.image.height)),
                       Num(before.image.width))
  IN  /\ after = [before EXCEPT
                    !.width = newWidth,
                    !.x = Sub(before.x, Div(Sub(newWidth, before.width), Num(2))),
                    !.y = Sub(before.y, Div(Sub(newHeight, oldHeight), Num(2)))]
      /\ CenterOf(after) = CenterOf(before)

\* the worked example: a 100x50 image created at (0, 0) and scaled to width
\* 200 ends at (-50, -25) with height 100
ScaleExampleHolds ==
  LET image == [name |-> <<"c", ".", "p", "n", "g">>, width |-> 100,
                height |-> 50, sha256 |-> <<"h", "c">>]
      created == applyAction([kind |-> "Create", image |-> image], <<>>)
      scaled == applyAction([kind |-> "Scale", spriteId |-> created[1].id,
                             newWidth |-> Num(200)], created)
  IN  /\ Len(scaled) = 1
      /\ scaled[1].x = Num(-50) /\ scaled[1].y = Num(-25)
      /\ scaled[1].width = Num(200)
      /\ HeightOf(scaled[1].width, scaled[1].image) = Num(100)

NamesMissingSprite(action, sprites) ==
  /\ action.kind \in {"Delete", "Duplicate", "Translate", "Scale",
                      "ReorderLayers", "Rename"}
  /\ action.spriteId \notin SpriteIds(sprites)

\* C12: a Delete, Duplicate, Translate, Scale, ReorderLayers or Rename of the
\* log that names a sprite not present gives back the sprites it was applied
\* to.
C12_MissingSpriteIsNoOp ==
  \A k \in 1..Len(LogSteps) :
    NamesMissingSprite(LogSteps[k].action, LogSteps[k].before) =>
      LogSteps[k].after = LogSteps[k].before

\* a Delete of a sprite that is not present, applied to a sprite
C12_Witness ==
  \E k \in 1..Len(LogSteps) :
    /\ LogSteps[k].action.kind = "Delete"
    /\ NamesMissingSprite(LogSteps[k].action, LogSteps[k].before)
    /\ Len(LogSteps[k].before) > 0


\* ------------------------------------------------- uploads that overlap
\* The session of the two upload buttons, the image picker and undo and redo,
\* in which an upload is begun and settles while another one is in flight.
SpriteRecord(spriteName, image, x, width, height) ==
  [isObject |-> TRUE,
   spriteName |-> JString(spriteName),
   imageFileName |-> JString(image.name),
   imageSha256 |-> JString(image.sha256),
   x |-> JNumber(Num(x)), y |-> JNumber(Num(0)),
   width |-> JNumber(Num(width)), height |-> JNumber(Num(height))]

SpritesDocument(records) == [isArray |-> TRUE, sprites |-> records]

\* the documents of the upload: a valid record of each image; a record wider
\* than its image and one taller than its image; a value that is no array
ImportBatches ==
  JsonUploadBatches
  \cup
  { <<JsonUploadFile(SPRITES_JSON, TRUE,
        SpritesDocument(<<SpriteRecord(<<"a">>, ImageA, 1, 2, 2),
                          SpriteRecord(<<"b">>, ImageB, 1, 4, 2)>>)),
      JsonUploadFile(SPRITES_JSON, TRUE,
        SpritesDocument(<<SpriteRecord(<<"a">>, ImageA, 0, 1, 1)>>))>>,
    <<JsonUploadFile(SPRITES_JSON, TRUE,
        SpritesDocument(<<SpriteRecord(<<"a">>, ImageA, 1, 2, 2)>>)),
      JsonUploadFile(SPRITES_JSON, TRUE,
        SpritesDocument(<<SpriteRecord(<<"a">>, ImageA, 0, 2, 2),
                          SpriteRecord(<<"a">>, ImageA, 0, 3, 2)>>))>>,
    <<JsonUploadFile(SPRITES_JSON, TRUE,
        SpritesDocument(<<SpriteRecord(<<"a">>, ImageA, 0, 2, 3)>>))>>,
    <<JsonUploadFile(SPRITES_JSON, TRUE,
        SpritesDocument(<<SpriteRecord(<<"a">>, ImageA, 1, 2, 2)>>)),
      JsonUploadFile(SPRITES_JSON, TRUE, [isArray |-> FALSE, sprites |-> <<>>])>>,
    <<JsonUploadFile(SPRITES_JSON, FALSE, SpritesDocument(<<>>))>>,
    <<JsonUploadFile(<<"s", ".", "t", "x", "t">>, TRUE, SpritesDocument(<<>>))>> }

\* the files of an image upload: the batches of the session of one upload at
\* a time, and each image alone
ImageBatches ==
  ImageUploadBatches
  \cup { <<ImageUploadFile(ImageA, TRUE)>>, <<ImageUploadFile(ImageB, TRUE)>> }

\* the log has room for an edit and for the import in flight
ImportHasRoom ==
  Len(actions) + Len(redoStack) + (IF jsonUpload = <<>> THEN 0 ELSE 1) < MaxLog

NextImport ==
  \/ \E files \in ImageBatches :
       LibraryHasRoom(files) /\ onImageFileInputChange(files)
  \/ ImageUploadSettles
  \/ \E i \in 1..Len(imageFiles) :
       ImportHasRoom /\ createSpriteFromImage(imageFiles[i])
  \/ \E files \in ImportBatches :
       ImportHasRoom /\ onJsonFileInputChange(files)
  \/ JsonUploadSettles
  \/ KeyupUndo
  \/ KeyupRedo

SpecImport == Init /\ [][NextImport]_vars

\* the values that JSON.parse returned for the files of the upload in flight
UploadedDocuments == [i \in 1..Len(jsonUpload) |-> jsonUpload[i].json]

\* this step is the then of the Promise.all of a JSON upload whose files all
\* parsed
IsImportStep ==
  /\ jsonUpload # <<>>
  /\ jsonUpload' = <<>>
  /\ \A i \in 1..Len(jsonUpload) : jsonUpload[i].parses

\* some document of the upload in flight is no array or holds a record that
\* the checks reject against the library
HasInvalidRecord ==
  \E f \in 1..Len(UploadedDocuments) :
    \/ ~UploadedDocuments[f].isArray
    \/ \E r \in 1..Len(UploadedDocuments[f].sprites) :
         ~CheckSprite(UploadedDocuments[f].sprites[r], imageFiles,
                      f - 1, r - 1).succeeded

\* C13: when an import is applied and some record of some document is
\* invalid, the import returns a failure, and the log, the redo stack and the
\* derived sprites are what they were: no record is imported.
C13_InvalidRecordFailsWholeImport ==
  [][(IsImportStep /\ HasInvalidRecord) =>
       /\ ~importSpriteDotJson(UploadedDocuments, imageFiles).succeeded
       /\ actions' = actions
       /\ redoStack' = redoStack
       /\ getSprites(actions', pendingTransformation')
            = getSprites(actions, pendingTransformation)]_vars

\* an import in flight whose last record of the last document is the first
\* invalid one, while the log is not empty
C13_Witness ==
  /\ jsonUpload # <<>>
  /\ \A i \in 1..Len(jsonUpload) : jsonUpload[i].parses
  /\ LET result == importSpriteDotJson(UploadedDocuments, imageFiles)
     IN  /\ ~result.succeeded
         /\ result.error.kind = "AspectRatio"
         /\ result.error.fileIndex = 1 /\ result.error.spriteIndex = 1
  /\ Len(actions) > 0


\* width / height of the record differs from the aspect ratio of its image by
\* more than the tolerance, in either direction
DiffersFromImageAspect(record, image) ==
  LET diff == Sub(Div(record.width.v, record.height.v),
                  Div(Num(image.width), Num(image.height)))
  IN  \/ ~Leq(diff, MAX_IMPORT_ASPECT_RATIO_DIFF)
      \/ ~Leq(Sub(Num(0), MAX_IMPORT_ASPECT_RATIO_DIFF), diff)

\* some record of the upload in flight names an image of the library, has a
\* finite positive width and height, and differs from the image's aspect
HasAspectMismatch ==
  \E f \in 1..Len(UploadedDocuments) :
    /\ UploadedDocuments[f].isArray
    /\ \E r \in 1..Len(UploadedDocuments[f].sprites) :
         LET record == UploadedDocuments[f].sprites[r]
             imageIndex == IndexOfSha256(imageFiles, record.imageSha256.s)
         IN  /\ record.isObject
             /\ imageIndex # 0
             /\ record.width.t = "number" /\ IsFinite(record.width.v)
             /\ record.height.t = "number" /\ IsFinite(record.height.v)
             /\ ~Leq(record.width.v, Num(0)) /\ ~Leq(record.height.v, Num(0))
             /\ DiffersFromImageAspect(record, imageFiles[imageIndex])

\* C14 as stated: an import that holds a record whose width / height differs
\* from its image's aspect ratio by more than 0.001, in either direction, is
\* rejected and appends nothing.
C14_AspectMismatchIsRejected ==
  [][(IsImportStep /\ HasAspectMismatch) =>
       /\ ~importSpriteDotJson(UploadedDocuments, imageFiles).succeeded
       /\ actions' = actions]_vars


\* the records of the documents, document after document
RECURSIVE RecordsInOrder(_)
RecordsInOrder(documents) ==
  IF documents = <<>> THEN <<>>
  ELSE Head(documents).sprites \o RecordsInOrder(Tail(documents))

\* what a BulkImport holds for a record: its name, position and width, and
\* the image of the library that has the record's hash
EntryOfRecord(record, library) ==
  [spriteName |-> record.spriteName.s,
   image |-> CHOOSE image \in { library[i] : i \in 1..Len(library) } :
               image.sha256 = record.imageSha256.s,
   x |-> record.x.v,
   y |-> record.y.v,
   width |-> record.width.v]

\* C15: when an import is applied and every record of every document is
\* valid, the log grows by exactly one BulkImport, whose entries are the
\* records in document order and then record order, each with the record's
\* spriteName, x, y and width and the library image of the record's hash, and
\* no height.
C15_ValidImportAppendsOneBulkImport ==
  [][(IsImportStep /\ ~HasInvalidRecord) =>
       LET records == RecordsInOrder(UploadedDocuments)
       IN  actions' =
             Append(actions,
                    [kind |-> "BulkImport",
                     idealSprites |->
                       [k \in 1..Len(records) |->
                          EntryOfRecord(records[k], imageFiles)]])]_vars

\* the log holds the BulkImport of the upload of two documents: the records
\* of the first document, of the two images, and then the one of the second
C15_Witness ==
  \E k \in 1..Len(actions) :
    /\ actions[k].kind = "BulkImport"
    /\ Len(actions[k].idealSprites) = 3
    /\ actions[k].idealSprites[1].image = ImageA
    /\ actions[k].idealSprites[1].x = Num(1)
    /\ actions[k].idealSprites[2].image = ImageB
    /\ actions[k].idealSprites[3].x = Num(0)
    /\ DOMAIN actions[k].idealSprites[3] = {"spriteName", "image", "x", "y", "width"}


\* ------------------------------------------------- export and import again
\* the sprites that the document exported from sprites gives when it is
\* imported into an empty log against the library
ImportOfExport(sprites, library) ==
  importSpriteDotJson(<<serializeSprites(sprites)>>, library)

\* C16 as stated: the export of the derived sprites, imported into an empty
\* log against the same library, succeeds and derives sprites of the same
\* number, order, names, images, x, y and width.
C16_ExportImportRoundTrip ==
  LET sprites == getSprites(actions, pendingTransformation)
      importResult == ImportOfExport(sprites, imageFiles)
  IN  /\ importResult.succeeded
      /\ LET imported == applyAction(importResult.action, <<>>)
         IN  /\ Len(imported) = Len(sprites)
             /\ \A i \in 1..Len(sprites) :
                  /\ imported[i].name = sprites[i].name
                  /\ imported[i].image = sprites[i].image
                  /\ imported[i].x = sprites[i].x
                  /\ imported[i].y = sprites[i].y
                  /\ imported[i].width = sprites[i].width


\* ------------------------------------------------- import before decode
\* the library once every image of the session has been decoded
WholeLibrary == <<ImageA, ImageB>>

\* some record of the upload in flight names, by hash, an image that the
\* library does not hold now
ReferencesMissingImage ==
  \E f \in 1..Len(UploadedDocuments) :
    \E r \in 1..Len(UploadedDocuments[f].sprites) :
      /\ \A g \in 1..f : UploadedDocuments[g].isArray
      /\ UploadedDocuments[f].sprites[r].imageSha256.s
           \notin { imageFiles[i].sha256 : i \in 1..Len(imageFiles) }

\* every sprite shows an image of the library
EverySpriteHasItsImage(sprites, library) ==
  \A i \in 1..Len(sprites) :
    \E k \in 1..Len(library) : library[k] = sprites[i].image

\* C17: an import whose documents are valid against the whole library, when
\* it is applied while the library lacks an image that a record names, gives
\* the image-not-found failure, clears the processing flag and leaves the log
\* and the derived sprites as they were; applied when the library holds every
\* image it names, it appends its BulkImport; either way every derived sprite
\* has an image of the library.
C17_ImportReadsLibraryWhenApplied ==
  [][(IsImportStep /\ importSpriteDotJson(UploadedDocuments, WholeLibrary).succeeded) =>
       LET importResult == importSpriteDotJson(UploadedDocuments, imageFiles)
       IN  /\ ~isProcessingJsonFile'
           /\ EverySpriteHasItsImage(getSprites(actions', pendingTransformation'),
                                     imageFiles')
           /\ IF ReferencesMissingImage
              THEN /\ ~importResult.succeeded
                   /\ importResult.error.kind = "ImageNotFound"
                   /\ actions' = actions
              ELSE /\ Len(actions') = Len(actions) + 1
                   /\ actions'[Len(actions')].kind = "BulkImport"
                   /\ Len(actions'[Len(actions')].idealSprites)
                        = Len(RecordsInOrder(UploadedDocuments))]_vars

\* an import of records of both images is in flight while the library holds
\* one image only and the decode of the other image is in flight too
C17_Witness ==
  /\ jsonUpload # <<>>
  /\ \A i \in 1..Len(jsonUpload) : jsonUpload[i].parses
  /\ importSpriteDotJson(UploadedDocuments, WholeLibrary).succeeded
  /\ ReferencesMissingImage
  /\ Len(imageFiles) = 1
  /\ imageUpload # <<>>
  /\ \A i \in 1..Len(imageUpload) :
       /\ imageUpload[i].decodes
       /\ imageUpload[i].image \notin { imageFiles[k] : k \in 1..Len(imageFiles) }


\* ------------------------------------------------- batches that fail
\* this step is the settling of the Promise.all of an image upload
IsImageBatchSettled == imageUpload # <<>> /\ imageUpload' = <<>>

\* C18 as stated: when an image upload settles, every file of it that was
\* decoded and hashed is in the library, whatever became of the other files.
C18_DecodedFilesAreAdded ==
  [][IsImageBatchSettled =>
       \A i \in 1..Len(imageUpload) :
         imageUpload[i].decodes =>
           \E k \in 1..Len(imageFiles') : imageFiles'[k] = imageUpload[i].image]_vars

\* C19 as stated: a processing flag is true only while its batch is in
\* flight; once the batch has settled or has been abandoned, with or without
\* a failure, the flag is false again and the next batch can be started.
C19_FlagIsTrueOnlyInFlight ==
  /\ isProcessingImageFile => imageUpload # <<>>
  /\ isProcessingJsonFile => jsonUpload # <<>>


\* ------------------------------------------------- gestures
\* The session of a gesture: every handler that runs while a key of a gesture
\* is held down (pointer moves, the image picker, the uploads, Escape, the
\* release of the key), with the handlers that build the library and the log
\* before it.
NextGesture ==
  \/ \E files \in ImageUploadBatches :
       LibraryHasRoom(files) /\ onImageFileInputChange(files)
  \/ ImageUploadSettles
  \/ \E i \in 1..Len(imageFiles) :
       ImportHasRoom /\ createSpriteFromImage(imageFiles[i])
  \/ \E files \in JsonUploadBatches :
       ImportHasRoom /\ onJsonFileInputChange(files)
  \/ JsonUploadSettles
  \/ onCanvasMouseEnter
  \/ onCanvasMouseLeave
  \/ \E p \in PointerPositions : onWindowMouseMove(p)
  \/ \E kind \in {"Translate", "Scale"} : KeydownStartGesture(kind)
  \/ KeydownEscape
  \/ ImportHasRoom /\ KeyupFinalizeGesture

SpecGesture == Init /\ [][NextGesture]_vars

\* this step is a pointer move while a gesture is pending
IsGestureMove ==
  /\ pendingTransformation # NoPending
  /\ \E p \in PointerPositions : onWindowMouseMove(p)

\* Escape leaves the log and the redo stack alone and gives the sprites of the
\* log; a pointer move of a gesture changes the current pointer position of the
\* pending record and nothing else of the state
CancelAndMoveKeepLog ==
  /\ KeydownEscape =>
       /\ pendingTransformation' = NoPending
       /\ actions' = actions
       /\ redoStack' = redoStack
       /\ getSprites(actions', pendingTransformation')
            = getSprites(actions, NoPending)
  /\ IsGestureMove =>
       /\ pendingTransformation' # NoPending
       /\ pendingTransformation' =
            [pendingTransformation EXCEPT
               !.pointerCurrentX = pendingTransformation'.pointerCurrentX,
               !.pointerCurrentY = pendingTransformation'.pointerCurrentY]
       /\ pendingTransformation'.pointerCurrentX = pointer'.x
       /\ pendingTransformation'.pointerCurrentY = pointer'.y
       /\ UNCHANGED <<actions, redoStack, pasteBuffer, uploadVars,
                      isMouseOverCanvas, canvasWidthInput, canvasHeightInput>>

\* this step appends a Create or a BulkImport to the log
AppendsCreateOrImport ==
  /\ Len(actions') = Len(actions) + 1
  /\ SubSeq(actions', 1, Len(actions)) = actions
  /\ actions'[Len(actions')].kind \in {"Create", "BulkImport"}

\* C20 as stated: Escape and the pointer moves of a gesture leave the log
\* alone, and the sprites after a cancel are the sprites before the gesture
\* started: no step between the start of a gesture and its cancel changes
\* the sprites of the log.
C20_CancelRestoresSpritesBeforeGesture ==
  [][/\ CancelAndMoveKeepLog
     /\ (pendingTransformation # NoPending /\ pendingTransformation' # NoPending) =>
          getSprites(actions', NoPending) = getSprites(actions, NoPending)]_vars

\* C20: Escape sets the pending transformation to none and leaves the log and
\* the redo stack unchanged; a pointer move of a gesture changes only the
\* current pointer position of the pending record; after a cancel the derived
\* sprites are those of the log, and while a gesture is pending the sprites
\* of the log change only when an image of the picker or an import appends a
\* Create or a BulkImport.
C20_CancelRestoresSpritesOfLog ==
  [][/\ CancelAndMoveKeepLog
     /\ (/\ pendingTransformation # NoPending
         /\ pendingTransformation' # NoPending
         /\ ~AppendsCreateOrImport) =>
          getSprites(actions', NoPending) = getSprites(actions, NoPending)]_vars

\* a gesture whose pointer has moved since its start, so that the derived
\* sprites differ from the sprites of the log that Escape gives back
C20_Witness ==
  /\ pendingTransformation # NoPending
  /\ \/ pendingTransformation.pointerCurrentX # pendingTransformation.pointerStartX
     \/ pendingTransformation.pointerCurrentY # pendingTransformation.pointerStartY
  /\ getSprites(actions, pendingTransformation) # getSprites(actions, NoPending)


\* ------------------------------------------------- widths
\* C21 as stated: the width of every derived sprite, under the pending
\* overlay and without it, is a finite number that is not negative.
C21_WidthIsDefinedNonNegative ==
  \A sprites \in { getSprites(actions, pendingTransformation),
                   getSprites(actions, NoPending) } :
    \A i \in 1..Len(sprites) :
      IsFinite(sprites[i].width) /\ Leq(Num(0), sprites[i].width)


\* ------------------------------------------------- layers
\* the sprites other than the one with the id, in their order
WithoutSprite(sprites, id) ==
  LET IsOther(sprite) == sprite.id # id
  IN  SelectSeq(sprites, IsOther)

\* after is before with the sprite that action names moved to the place that
\* the kind of the action names, and the other sprites in their order
IsReordered(action, before, after) ==
  LET n == Len(before)
      index == CHOOSE k \in 1..n : before[k].id = action.spriteId
      place == CASE action.layerChangeKind = "MoveUp" ->
                      IF index = n THEN n ELSE index + 1
                 [] action.layerChangeKind = "MoveDown" ->
                      IF index = 1 THEN 1 ELSE index - 1
                 [] action.layerChangeKind = "MoveToTop" -> n
                 [] action.layerChangeKind = "MoveToBottom" -> 1
  IN  /\ Len(after) = n
      /\ after[place] = before[index]
      /\ WithoutSprite(after, action.spriteId) = WithoutSprite(before, action.spriteId)
      /\ place = index => after = before

ReorderActions(sprites) ==
  { [kind |-> "ReorderLayers", spriteId |-> id, layerChangeKind |-> c] :
      id \in SpriteIds(sprites), c \in LayerChangeKinds }

\* C22: a ReorderLayers of a live sprite gives the sprites it was applied to
\* with the target one place up (MoveUp), one place down (MoveDown), last
\* (MoveToTop) or first (MoveToBottom) and the other sprites in their order;
\* MoveUp of the last and MoveDown of the first sprite change nothing: for
\* every ReorderLayers of the log, and for every ReorderLayers of a sprite of
\* the derived sprites.
C22_ReorderMovesTargetOnly ==
  LET steps == LogSteps
      sprites == IF steps = <<>> THEN <<>> ELSE steps[Len(steps)].after
  IN  /\ \A k \in 1..Len(steps) :
           (/\ steps[k].action.kind = "ReorderLayers"
            /\ steps[k].action.spriteId \in SpriteIds(steps[k].before)) =>
             IsReordered(steps[k].action, steps[k].before, steps[k].after)
      /\ \A action \in ReorderActions(sprites) :
           IsReordered(action, sprites, applyAction(action, sprites))

\* a MoveUp of the middle one of three sprites
C22_Witness ==
  \E k \in 1..Len(LogSteps) :
    /\ LogSteps[k].action.kind = "ReorderLayers"
    /\ LogSteps[k].action.layerChangeKind = "MoveUp"
    /\ Len(LogSteps[k].before) = 3
    /\ LogSteps[k].before[2].id = LogSteps[k].action.spriteId
    /\ LogSteps[k].after[3] = LogSteps[k].before[2]


\* ------------------------------------------------- copy and paste
\* The session of copy and paste: a document puts the wide image under the
\* square one, so that each pointer position selects another sprite.
PasteBatches ==
  { <<JsonUploadFile(SPRITES_JSON, TRUE,
        SpritesDocument(<<SpriteRecord(<<"b">>, ImageB, 0, 4, 2),
                          SpriteRecord(<<"a">>, ImageA, 0, 1, 1)>>))>> }

NextPaste ==
  \/ \E files \in ImageUploadBatches :
       LibraryHasRoom(files) /\ onImageFileInputChange(files)
  \/ ImageUploadSettles
  \/ \E i \in 1..Len(imageFiles) :
       ImportHasRoom /\ createSpriteFromImage(imageFiles[i])
  \/ \E files \in PasteBatches :
       ImportHasRoom /\ onJsonFileInputChange(files)
  \/ JsonUploadSettles
  \/ \E p \in PointerPositions : onWindowMouseMove(p)
  \/ KeyupCopyWidth
  \/ KeyupCopyHeight
  \/ (pasteBuffer.mode = "NoOp" \/ ImportHasRoom) /\ KeyupPaste
  \/ KeyupUndo
  \/ KeyupRedo

SpecPaste == Init /\ [][NextPaste]_vars

\* C23: a paste while the paste buffer is in its initial, empty state leaves
\* the log, the redo stack and the paste buffer as they are.
C23_EmptyPasteChangesNothing ==
  [][(pasteBuffer.mode = "NoOp" /\ KeyupPaste) =>
       UNCHANGED <<actions, redoStack, pasteBuffer>>]_vars

\* the paste buffer is empty, the pointer is on a sprite and there is an
\* action to redo
C23_Witness ==
  /\ pasteBuffer.mode = "NoOp"
  /\ KeyupOnSprite
  /\ SelectedSprites # {}
  /\ Len(redoStack) > 0

\* the width that a paste of the buffer gives the target
PastedWidth(buffer, target) ==
  IF buffer.mode = "Width" THEN buffer.value
  ELSE Div(Mul(buffer.value, Num(target.image.width)), Num(target.image.height))

\* C24: a paste of a buffer that is not empty appends exactly one Scale of
\* the selected sprite, to the copied width, or to the copied height times
\* the target's image width over its image height; after it the width of the
\* target is the copied width, or its height is the copied height.
C24_PasteAppendsOneScale ==
  [][(pasteBuffer.mode # "NoOp" /\ KeyupPaste) =>
       \E target \in SelectedSprites :
         /\ actions' = Append(actions,
                              [kind |-> "Scale", spriteId |-> target.id,
                               newWidth |-> PastedWidth(pasteBuffer, target)])
         /\ LET sprites == getSprites(actions', pendingTransformation')
            IN  \E i \in 1..Len(sprites) :
                  /\ sprites[i].id = target.id
                  /\ IF pasteBuffer.mode = "Width"
                     THEN sprites[i].width = pasteBuffer.value
                     ELSE Div(Mul(sprites[i].width, Num(sprites[i].image.height)),
                              Num(sprites[i].image.width)) = pasteBuffer.value]_vars

\* the height of the square sprite has been pasted onto the wide sprite,
\* which is now as high as the square one and twice as wide
C24_Witness ==
  /\ pasteBuffer = [mode |-> "Height", value |-> Num(1)]
  /\ Len(actions) > 0
  /\ actions[Len(actions)].kind = "Scale"
  /\ LET sprites == getSprites(actions, pendingTransformation)
     IN  \E i \in 1..Len(sprites) :
           /\ sprites[i].id = actions[Len(actions)].spriteId
           /\ sprites[i].image = ImageB
           /\ sprites[i].width = Num(2)


\* ------------------------------------------------- names
\* the ideal names that the allocation of a name is asked for
IdealNameInputs ==
  { <<"a">>, <<"b">>,
    <<"a", " ", "(", "1", ")">>, <<"a", " ", "(", "2", ")">>,
    <<"a", " ", "(", "1", ")", " ", "(", "1", ")">> }

WithCounter(base, counter) ==
  base \o <<" ", "(">> \o NumberToString(counter) \o <<")">>

\* name is base with the smallest counter from minimumCounter on that gives
\* a name not in existingNames
IsFirstFreeCounter(name, base, existingNames, minimumCounter) ==
  \E k \in minimumCounter..(minimumCounter + Cardinality(existingNames)) :
    /\ name = WithCounter(base, k)
    /\ name \notin existingNames
    /\ \A j \in minimumCounter..(k - 1) : WithCounter(base, j) \in existingNames

\* C25 as stated: for an ideal name that is in use and ends with " (n)", the
\* allocated name is the name without that suffix followed by " (k)", k the
\* smallest counter from n + 1 on whose name is not in use.
C25_SuffixedNameGetsNextCounter ==
  LET sprites == getSprites(actions, pendingTransformation)
  IN  \A idealName \in IdealNameInputs :
        (idealName \in SpriteNames(sprites) /\ CounterSuffixLength(idealName) # 0) =>
          IsFirstFreeCounter(
            getUnusedSpriteName(idealName, sprites),
            SubSeq(idealName, 1, Len(idealName) - CounterSuffixLength(idealName)),
            SpriteNames(sprites),
            1 + ParseInt(CounterSuffixDigits(idealName)))


\* the candidates that the while (true) loop tests, from counter on
RECURSIVE CandidatesTried(_, _, _)
CandidatesTried(idealName, existingNames, counter) ==
  IF WithCounter(idealName, counter) \notin existingNames THEN 1
  ELSE 1 + CandidatesTried(idealName, existingNames, counter + 1)

\* getUnusedSpriteNameWithMinimumCounter with the count of its recursive
\* calls and of the candidates that its loop tests
RECURSIVE AllocationTrace(_, _, _)
AllocationTrace(idealName, sprites, minimumCounter) ==
  LET existingNames == SpriteNames(sprites)
      m == CounterSuffixLength(idealName)
  IN  IF idealName \notin existingNames
      THEN [name |-> idealName, stripped |-> 0, tried |-> 0]
      ELSE IF m # 0
      THEN LET rest == AllocationTrace(
                         SubSeq(idealName, 1, Len(idealName) - m), sprites,
                         1 + ParseInt(CounterSuffixDigits(idealName)))
           IN  [rest EXCEPT !.stripped = rest.stripped + 1]
      ELSE [name |-> FirstUnusedCandidate(idealName, existingNames, minimumCounter),
            stripped |-> 0,
            tried |-> CandidatesTried(idealName, existingNames, minimumCounter)]

\* C26: for every ideal name and the derived sprites, the allocation of a
\* name ends: it strips at most as many suffixes as the ideal name has room
\* for, its loop tests at most one candidate more than there are sprites,
\* and the name it returns is not the name of a sprite.
C26_AllocationEnds ==
  LET sprites == getSprites(actions, pendingTransformation)
  IN  \A idealName \in IdealNameInputs :
        LET trace == AllocationTrace(idealName, sprites, 1)
        IN  /\ trace.name = getUnusedSpriteName(idealName, sprites)
            /\ \A i \in 1..Len(sprites) : sprites[i].name # trace.name
            /\ trace.tried <= Len(sprites) + 1
            /\ 4 * trace.stripped <= Len(idealName)

\* an ideal name whose suffix is stripped and whose loop then tests two
\* candidates
C26_Witness ==
  LET sprites == getSprites(actions, pendingTransformation)
  IN  \E idealName \in IdealNameInputs :
        /\ AllocationTrace(idealName, sprites, 1).stripped >= 1
        /\ AllocationTrace(idealName, sprites, 1).tried >= 2


\* ------------------------------------------------------------------ picking
\* the sprites, by index, whose rendered pixel at the pointer is not
\* transparent
CoveringSprites(sprites, p) ==
  { i \in 1..Len(sprites) : PixelIsOpaque(sprites[i], p.x, p.y) }

\* C27: for every pointer position and every content of the two canvas
\* inputs, picking on the derived sprites gives no sprite when a canvas
\* dimension is zero or not a non-negative integer; otherwise it gives no
\* sprite exactly when no sprite covers the pointer, and else the covering
\* sprite of the highest index.
C27_PickerTakesTopmost ==
  LET sprites == getSprites(actions, pendingTransformation)
  IN  \A p \in PointerPositions : \A w \in CanvasInputs : \A h \in CanvasInputs :
        LET index == SelectedIndex(p.x, p.y, sprites, w, h)
            covering == CoveringSprites(sprites, p)
        IN  IF w # <<"8">> \/ h # <<"8">>
            THEN index = NoSprite
            ELSE /\ (index = NoSprite) <=> (covering = {})
                 /\ index # NoSprite =>
                      /\ index \in covering
                      /\ \A j \in covering : j <= index

\* three sprites cover the pointer at (1, 1), the topmost one is picked, and
\* a single sprite covers the pointer at (0, 0)
C27_Witness ==
  LET sprites == getSprites(actions, pendingTransformation)
  IN  /\ Cardinality(CoveringSprites(sprites, Point(1, 1))) >= 3
      /\ SelectedIndex(Num(1), Num(1), sprites, <<"8">>, <<"8">>) = Len(sprites)
      /\ CoveringSprites(sprites, Point(0, 0)) = {1}
      /\ SelectedIndex(Num(0), Num(0), sprites, <<"8">>, <<>>) = NoSprite


\* ------------------------------------------------------------ undo and redo
\* C28: an accepted undo makes the log the meaningful actions of the log
\* without the last of them and puts that last one on the tail of the redo
\* stack; when the log has no meaningful action it empties the log and keeps
\* the redo stack.  An accepted redo moves the tail of the redo stack to the
\* tail of the log.
C28_UndoRedoMoveOneAction ==
  [][LET meaningful == getMeaningfulActions(actions)
         n == Len(meaningful)
         r == Len(redoStack)
     IN  /\ KeyupUndo =>
              IF n = 0
              THEN actions' = <<>> /\ redoStack' = redoStack
              ELSE /\ actions' = SubSeq(meaningful, 1, n - 1)
                   /\ redoStack' = Append(redoStack, meaningful[n])
         /\ KeyupRedo =>
              /\ actions' = Append(actions, redoStack[r])
              /\ redoStack' = SubSeq(redoStack, 1, r - 1)]_vars

\* a log of no-ops only beside a redo stack that holds an action: both the
\* undo and the redo are accepted here
C28_Witness ==
  /\ pendingTransformation = NoPending
  /\ Len(actions) > 0
  /\ getMeaningfulActions(actions) = <<>>
  /\ Len(redoStack) > 0


\* ------------------------------------------------------ meaningful actions
\* some sprite has a NaN coordinate or width, which === tells apart from
\* itself
HasNaNSprite(sprites) ==
  \E i \in 1..Len(sprites) :
    IsNaN(sprites[i].x) \/ IsNaN(sprites[i].y) \/ IsNaN(sprites[i].width)

onWindowMouseMoveQueued(p) ==
  /\ pointer' = p
  /\ UNCHANGED <<logVars, uploadVars, isMouseOverCanvas, canvasWidthInput,
                 canvasHeightInput>>

\* the queued updater of the latest pointer move runs
MouseMoveUpdateApplies ==
  /\ pendingTransformation # NoPending
  /\ ~PointerCoordsAreNull
  /\ \/ pendingTransformation.pointerCurrentX # pointer.x
     \/ pendingTransformation.pointerCurrentY # pointer.y
  /\ pendingTransformation' =
       [pendingTransformation EXCEPT !.pointerCurrentX = pointer.x,
                                     !.pointerCurrentY = pointer.y]
  /\ UNCHANGED <<actions, redoStack, pasteBuffer, uploadVars, viewVars>>

\* The session of a gesture with queued pointer moves.  onWindowKeyup takes
\* the pending record from this.state when the key event is handled, so
\* KeyupFinalizeGesture finalizes the record without the moves still queued.
NextQueuedMoves ==
  \/ \E files \in ImageUploadBatches :
       LibraryHasRoom(files) /\ onImageFileInputChange(files)
  \/ ImageUploadSettles
  \/ \E i \in 1..Len(imageFiles) :
       ImportHasRoom /\ createSpriteFromImage(imageFiles[i])
  \/ onCanvasMouseEnter
  \/ \E p \in PointerPositions : onWindowMouseMoveQueued(p)
  \/ MouseMoveUpdateApplies
  \/ \E kind \in {"Translate", "Scale"} : KeydownStartGesture(kind)
  \/ KeydownEscape
  \/ ImportHasRoom /\ KeyupFinalizeGesture

SpecQueuedMoves == Init /\ [][NextQueuedMoves]_vars

\* the pending record once every queued pointer move has been applied to it
LatestPendingTransformation ==
  [pendingTransformation EXCEPT !.pointerCurrentX = pointer.x,
                                !.pointerCurrentY = pointer.y]

\* C30: when the key of a gesture is released, the action appended is the
\* finalized form of the pending record with the latest pointer move in it,
\* computed against the sprites of the log, and the sprites of the new log
\* are the preview of that record over the old log.
C30_FinalizesLatestPointerMove ==
  [][KeyupFinalizeGesture =>
       /\ actions' =
            Append(actions,
                   finalizePendingSpriteTransformation(
                     LatestPendingTransformation, getSprites(actions, NoPending)))
       /\ getSprites(actions', NoPending) =
            getSprites(actions, LatestPendingTransformation)]_vars


\* ---------------------------------------------------------- linear history
\* the order in which successive redos append the actions of the redo stack
RedoOrder(stack) == [i \in 1..Len(stack) |-> stack[Len(stack) + 1 - i]]

\* C31: a redo finds the log as the undo that pushed the redone action left
\* it.  That undo left the meaningful actions of the log of its time, all but
\* the last in the log and the last on the redo stack; so at every moment the
\* log followed by the redo stack in redo order is a log that undo has
\* filtered, one of meaningful actions only.
C31_RedoFindsLogOfItsUndo ==
  redoStack # <<>> =>
    getMeaningfulActions(actions \o RedoOrder(redoStack)) =
      actions \o RedoOrder(redoStack)


\* ------------------------------------------------ sprites added to the fold
\* The actions that add, remove and name sprites, as inputs of the fold: the
\* log grows by any of them.
BuildInputs ==
  { action \in ActionInputs :
      action.kind \in {"Create", "BulkImport", "Delete", "Duplicate", "Rename"} }

NextBuild == \E action \in BuildInputs : LogHasRoom /\ FoldInput(action)

SpecBuild == Init /\ [][NextBuild]_vars

\* after is before with one sprite on top that has the given image, position
\* and width, an id that no sprite of before has and a name that no sprite of
\* before has
IsOneSpriteAdded(before, after, image, x, y, width) ==
  /\ Len(after) = Len(before) + 1
  /\ SubSeq(after, 1, Len(before)) = before
  /\ after[Len(after)].image = image
  /\ after[Len(after)].x = x
  /\ after[Len(after)].y = y
  /\ after[Len(after)].width = width
  /\ \A i \in 1..Len(before) :
       /\ before[i].id # after[Len(after)].id
       /\ before[i].name # after[Len(after)].name

\* C32: on the derived sprites, Create of an image adds one sprite on top at
\* (0, 0) with the width of the image, and Duplicate of a live id adds one
\* sprite on top with the image, position and width of the original; the new
\* sprite has a fresh id and a fresh name, and the other sprites keep their
\* fields and order.
C32_CreateAndDuplicateAddOnTop ==
  LET sprites == getSprites(actions, pendingTransformation)
  IN  /\ \A image \in {ImageA, ImageB} :
           IsOneSpriteAdded(sprites,
             applyAction([kind |-> "Create", image |-> image], sprites),
             image, Num(0), Num(0), Num(image.width))
      /\ \A i \in 1..Len(sprites) :
           IsOneSpriteAdded(sprites,
             applyAction([kind |-> "Duplicate", spriteId |-> sprites[i].id], sprites),
             sprites[i].image, sprites[i].x, sprites[i].y, sprites[i].width)

\* three sprites away from (0, 0), the name of an image among their names
C32_Witness ==
  LET sprites == getSprites(actions, pendingTransformation)
  IN  /\ Len(sprites) >= 3
      /\ \E i \in 1..Len(sprites) : sprites[i].x # Num(0)
      /\ \E i \in 1..Len(sprites) : sprites[i].name = <<"a">>


\* the BulkImport actions of the input set, and one without entries
BulkImportInputs ==
  { action \in ActionInputs : action.kind = "BulkImport" }
  \cup { [kind |-> "BulkImport", idealSprites |-> <<>>] }

\* C33: on the derived sprites, BulkImport of n entries gives the m sprites
\* unchanged and n sprites on top of them, one per entry in the order of the
\* entries with the image, position and width of its entry; the ids of the
\* new sprites increase strictly and are above every id before them, and the
\* name of each is the name of no sprite before it, its entry's name where no
\* sprite before it has that name.  With no entry the sprites are unchanged.
C33_BulkImportAddsEntriesInOrder ==
  LET sprites == getSprites(actions, pendingTransformation)
      m == Len(sprites)
  IN  \A action \in BulkImportInputs :
        LET entries == action.idealSprites
            out == applyAction(action, sprites)
        IN  /\ Len(out) = m + Len(entries)
            /\ SubSeq(out, 1, m) = sprites
            /\ \A k \in 1..Len(entries) :
                 /\ out[m + k].image = entries[k].image
                 /\ out[m + k].x = entries[k].x
                 /\ out[m + k].y = entries[k].y
                 /\ out[m + k].width = entries[k].width
                 /\ \A j \in 1..(m + k - 1) :
                      /\ out[j].id < out[m + k].id
                      /\ out[j].name # out[m + k].name
                 /\ (\A j \in 1..(m + k - 1) : out[j].name # entries[k].spriteName)
                      => out[m + k].name = entries[k].spriteName
            /\ entries = <<>> => out = sprites

\* sprites that hold the name of an entry of the import of three entries
C33_Witness ==
  LET sprites == getSprites(actions, pendingTransformation)
  IN  /\ Len(sprites) >= 2
      /\ \E i \in 1..Len(sprites) : sprites[i].name = <<"b">>
      /\ \E action \in BulkImportInputs : Len(action.idealSprites) = 3


\* ----------------------------------------------------- failures of an import
\* document f of the upload (1-based) is an array whose records all pass the
\* checks against the library
IsValidDocument(f) ==
  /\ UploadedDocuments[f].isArray
  /\ \A r \in 1..Len(UploadedDocuments[f].sprites) :
       CheckSprite(UploadedDocuments[f].sprites[r], imageFiles, f - 1, r - 1).succeeded

\* C34: when the import of the upload in flight fails, its failure is that of
\* the first document that is not valid and names the index of that document;
\* where the document is an array it is the failure of the first record that
\* the checks reject and names the index of that record.
C34_FailureNamesFirstViolation ==
  LET result == importSpriteDotJson(UploadedDocuments, imageFiles)
  IN  (/\ jsonUpload # <<>>
       /\ \A i \in 1..Len(jsonUpload) : jsonUpload[i].parses
       /\ ~result.succeeded) =>
        \E f \in 1..Len(UploadedDocuments) :
          /\ \A g \in 1..(f - 1) : IsValidDocument(g)
          /\ ~IsValidDocument(f)
          /\ result.error.fileIndex = f - 1
          /\ UploadedDocuments[f].isArray =>
               \E r \in 1..Len(UploadedDocuments[f].sprites) :
                 /\ \A q \in 1..(r - 1) :
                      CheckSprite(UploadedDocuments[f].sprites[q], imageFiles,
                                  f - 1, q - 1).succeeded
                 /\ result = CheckSprite(UploadedDocuments[f].sprites[r],
                                         imageFiles, f - 1, r - 1)
                 /\ result.error.spriteIndex = r - 1


\* ------------------------------------------------------------------ edits
\* The session of the keys over a library of one image: every key handler,
\* the gestures and the picker of the library, with a JSON upload that may
\* settle at any moment; the log and the redo stack stay within MaxLog.
NextKeys ==
  \/ (imageFiles = <<>> /\ onImageFileInputChange(<<ImageUploadFile(ImageA, TRUE)>>))
  \/ ImageUploadSettles
  \/ \E i \in 1..Len(imageFiles) :
       ImportHasRoom /\ createSpriteFromImage(imageFiles[i])
  \/ \E files \in JsonUploadBatches :
       ImportHasRoom /\ onJsonFileInputChange(files)
  \/ JsonUploadSettles
  \/ onCanvasMouseEnter
  \/ \E p \in PointerPositions : onWindowMouseMove(p)
  \/ KeydownEscape
  \/ \E kind \in {"Translate", "Scale"} : KeydownStartGesture(kind)
  \/ ImportHasRoom /\ KeyupFinalizeGesture
  \/ KeyupUndo
  \/ KeyupRedo
  \/ ImportHasRoom /\ KeyupDelete
  \/ ImportHasRoom /\ KeyupDuplicate
  \/ KeyupCopyWidth
  \/ KeyupCopyHeight
  \/ (pasteBuffer.mode = "NoOp" \/ ImportHasRoom) /\ KeyupPaste
  \/ \E layerChangeKind \in LayerChangeKinds :
       ImportHasRoom /\ KeyupReorderLayers(layerChangeKind)
  \/ \E newName \in PromptAnswers : ImportHasRoom /\ KeyupRename(newName)

SpecKeys == Init /\ [][NextKeys]_vars


\* C35: the release of the key of a gesture and a layer key append one action
\* to the log and empty the redo stack, also when the action changes nothing;
\* every step but an undo keeps the log as the beginning of the new log; an
\* undo leaves the meaningful actions of the log without the last of them, so
\* no action that changes nothing stays.
C35_NoOpStaysUntilUndo ==
  [][/\ (\/ KeyupFinalizeGesture
         \/ \E layerChangeKind \in LayerChangeKinds :
              KeyupReorderLayers(layerChangeKind)) =>
          /\ Len(actions') = Len(actions) + 1
          /\ SubSeq(actions', 1, Len(actions)) = actions
          /\ redoStack' = <<>>
     /\ ~KeyupUndo => SubSeq(actions', 1, Len(actions)) = actions
     /\ KeyupUndo =>
          /\ actions' = AllButLast(getMeaningfulActions(actions))
          /\ getMeaningfulActions(actions') = actions']_vars

\* a gesture at rest, or a layer key on a sprite whose layer it cannot change,
\* over a log that holds a meaningful action and, with no room for a further
\* edit, an edit that changed nothing
C35_Witness ==
  /\ Len(actions) = 2
  /\ Len(getMeaningfulActions(actions)) = 1
  /\ actions[2].kind \in {"Translate", "Scale", "ReorderLayers"}
  /\ pendingTransformation = NoPending


\* C36: whenever a gesture is pending, the sprites of the log, overlay left
\* out, hold a sprite with the id of the pending record.
C36_PendingSpriteIsLive ==
  pendingTransformation # NoPending =>
    \E i \in 1..Len(getSprites(actions, NoPending)) :
      getSprites(actions, NoPending)[i].id = pendingTransformation.spriteId

\* a gesture on the topmost of two sprites with the pointer moved away from
\* where the gesture began
C36_Witness ==
  /\ pendingTransformation # NoPending
  /\ pendingTransformation.spriteId = 1
  /\ Len(getSprites(actions, NoPending)) = 2
  /\ pendingTransformation.pointerCurrentX # pendingTransformation.pointerStartX


\* ------------------------------------------------------- gestures at rest
\* the current pointer position of the pending record is its start position
IsAtRest(transformation) ==
  /\ transformation.pointerCurrentX = transformation.pointerStartX
  /\ transformation.pointerCurrentY = transformation.pointerStartY

\* C37: the keydown that starts a gesture leaves a pending record at rest,
\* and whenever a step leaves a pending record at rest the sprites with the
\* overlay are the sprites of the log without it.
C37_GestureAtRestIsIdentity ==
  [][/\ (\E kind \in {"Translate", "Scale"} : KeydownStartGesture(kind)) =>
          IsAtRest(pendingTransformation')
     /\ (pendingTransformation' # NoPending /\ IsAtRest(pendingTransformation')) =>
          getSprites(actions', pendingTransformation') =
            getSprites(actions', NoPending)]_vars

\* a Scale at rest away from (0, 0) on a sprite that an import has put at
\* (1, 0)
C37_Witness ==
  /\ pendingTransformation # NoPending
  /\ pendingTransformation.kind = "Scale"
  /\ IsAtRest(pendingTransformation)
  /\ pendingTransformation.pointerStartX = Num(1)
  /\ \E i \in 1..Len(getSprites(actions, NoPending)) :
       /\ getSprites(actions, NoPending)[i].id = pendingTransformation.spriteId
       /\ getSprites(actions, NoPending)[i].x = Num(1)


\* C38: in every step from a pending record to a pending record the kind, the
\* sprite id and the start pointer position stay; a pointer move changes
\* nothing of the record but the current pointer position.
C38_GestureKeepsItsStart ==
  [][(pendingTransformation # NoPending /\ pendingTransformation' # NoPending) =>
       /\ pendingTransformation'.kind = pendingTransformation.kind
       /\ pendingTransformation'.spriteId = pendingTransformation.spriteId
       /\ pendingTransformation'.pointerStartX = pendingTransformation.pointerStartX
       /\ pendingTransformation'.pointerStartY = pendingTransformation.pointerStartY]_vars

\* a gesture whose pointer has moved to a place where a keydown finds a
\* sprite to pick
C38_Witness ==
  /\ pendingTransformation # NoPending
  /\ ~IsAtRest(pendingTransformation)
  /\ isMouseOverCanvas
  /\ SelectedSprites # {}


\* ------------------------------------------------- keys during a gesture
\* this step is the release of the key of the pending gesture: one action of
\* the kind and sprite of the pending record is appended, the redo stack is
\* emptied and the pending record is cleared
IsFinalizeStep ==
  /\ pendingTransformation # NoPending
  /\ Len(actions') = Len(actions) + 1
  /\ SubSeq(actions', 1, Len(actions)) = actions
  /\ actions'[Len(actions')].kind = pendingTransformation.kind
  /\ actions'[Len(actions')].spriteId = pendingTransformation.spriteId
  /\ redoStack' = <<>>
  /\ pendingTransformation' = NoPending

\* this step is the completion of a JSON import that appends its BulkImport
IsImportAppendStep ==
  /\ IsImportStep
  /\ Len(actions') = Len(actions) + 1
  /\ SubSeq(actions', 1, Len(actions)) = actions
  /\ actions'[Len(actions')].kind = "BulkImport"
  /\ redoStack' = redoStack

\* this step is a click on an image of the library: a Create is appended and
\* the redo stack is emptied
IsCreateStep ==
  /\ Len(actions') = Len(actions) + 1
  /\ SubSeq(actions', 1, Len(actions)) = actions
  /\ actions'[Len(actions')].kind = "Create"
  /\ redoStack' = <<>>

\* C39 as stated: while a gesture is pending no step changes the paste
\* buffer, and a step that changes the log or the redo stack is the release
\* of the key of the gesture or the completion of a JSON import.
C39_OnlyReleaseOrImportChangeLog ==
  [][pendingTransformation # NoPending =>
       /\ pasteBuffer' = pasteBuffer
       /\ (actions' # actions \/ redoStack' # redoStack) =>
            (IsFinalizeStep \/ IsImportAppendStep)]_vars

\* C39: while a gesture is pending no step changes the paste buffer, and a
\* step that changes the log or the redo stack is the release of the key of
\* the gesture, the completion of a JSON import, or a click on an image of
\* the library, which appends a Create and keeps the pending record.
C39_OnlyReleaseImportOrCreateChangeLog ==
  [][pendingTransformation # NoPending =>
       /\ pasteBuffer' = pasteBuffer
       /\ (actions' # actions \/ redoStack' # redoStack) =>
            \/ IsFinalizeStep
            \/ IsImportAppendStep
            \/ (IsCreateStep /\ pendingTransformation' = pendingTransformation)]_vars

\* a gesture over a sprite that the keys would pick, with a log to undo and a
\* redo stack to redo
C39_Witness ==
  /\ pendingTransformation # NoPending
  /\ SelectedSprites # {}
  /\ Len(actions) > 0
  /\ Len(redoStack) > 0


\* ------------------------------------------------------------------ rename
\* C40: on the derived sprites, Rename of a live sprite to any ideal name
\* gives it a name that no sprite had before, the renamed one included, and
\* so changes the sprites; a Rename to the sprite's own name gives a name
\* that ends with a counter.
C40_RenameGivesFreshCounterName ==
  LET sprites == getSprites(actions, pendingTransformation)
  IN  \A i \in 1..Len(sprites) : \A idealNewName \in IdealNameInputs :
        LET out == applyAction([kind |-> "Rename", spriteId |-> sprites[i].id,
                                idealNewName |-> idealNewName], sprites)
        IN  /\ Len(out) = Len(sprites)
            /\ \A j \in 1..Len(sprites) : sprites[j].name # out[i].name
            /\ out # sprites
            /\ idealNewName = sprites[i].name =>
                 CounterSuffixLength(out[i].name) # 0

====
